---- MODULE Spec2Model ----
(***************************************************************************)
(* A model of porygo's orchestration core: the worker pool                 *)
(* (internal/workerpool), the retry loop and backoff of the scraper        *)
(* (internal/scraper), the configuration check (config) and the callers    *)
(* that drive the pool (cmd/root.go processURLs, internal/app App.Run).    *)
(*                                                                         *)
(* Go semantics the model keeps:                                           *)
(*   - a select with several ready cases picks any one of them;            *)
(*   - a send on a closed channel panics; a receive from a closed channel  *)
(*     first drains the buffer and then yields ok = false;                 *)
(*   - a panic that no goroutine recovers ends the whole process           *)
(*     (crashed), after which nothing runs.                                *)
(***************************************************************************)
EXTENDS Integers, Sequences, FiniteSets, TLC

\* ------------------------------------------------------------- bounds
NumItems == 2        \* most Work Items one run submits
NumWorkers == 2      \* executors of the pool driven by the free caller
QueueCap == 1        \* channel capacity of the pool driven by the free caller
MaxRetry == 1        \* largest cfg.Retry of the pool runs
MaxAttempts == 9     \* largest cfg.Retry of a job called directly
MaxConcurrency == 2  \* largest cfg.Concurrency of the orchestrator runs
NumKeys == 2         \* distinct resource keys
MaxTime == 2         \* latest instant of the wall clock
MaxInst == 3         \* store instances one process makes at most
NumProcs == 2        \* concurrent callers of the cache manager
MaxList == 2         \* most selectors, and most patterns, one extraction is given
MaxTries == 3        \* largest cfg.Retry of a job whose Fetcher fails in every way
DurBits == 8         \* width of a time.Duration in the model (int64 in the code), counted in seconds
JitterDen == 4       \* rand.Float64() is drawn from {0/JitterDen, .., (JitterDen-1)/JitterDen}

\* ---------------------------------------------------- program constants
ThirtySeconds == 30  \* maxDelay := 30 * time.Second
Multiplier == 2      \* const multiplier = 2.0
MaxDelayFactor == 16 \* baseMax := BaseDelay * 16

Keys == 1..NumKeys
ErrKinds == {"timeout", "status"}
Archs == {"amd64", "arm64"}

NoItem == 0
NoErr == [marker |-> "", kind |-> "nil", at |-> 0]
NoValue == [type |-> "nil", bytes |-> <<>>, exp |-> 0]
NoEntry == [present |-> FALSE, bad |-> FALSE, exp |-> 0, value |-> <<>>]
NoSub == [item |-> NoItem, cancelledAtCall |-> FALSE, closedAtCall |-> FALSE]
NoResult == [item |-> NoItem, ok |-> FALSE, cached |-> FALSE, err |-> NoErr, value |-> NoValue]

VARIABLES
  cfg,            \* config.Config as the run uses it
  fetcher,        \* the Fetcher: the outcomes one call of scrape can have
  arch,           \* the build's target, which decides an out-of-range float-to-int conversion
  urls,           \* the batch: the key of each Work Item, in submission order
  cache,          \* the Cache Store: key -> entry
  now,            \* the wall clock read by time.Now()
  cap,            \* capacity of both channels (New's bufferSize)
  jobs,           \* WorkerPool.jobs: buffered channel of Work Items
  jobsClosed,     \* close(wp.jobs) has happened
  results,        \* WorkerPool.results: buffered channel of Results
  resultsClosed,  \* close(wp.results) has happened
  ctxDone,        \* the context passed to Run and Submit is cancelled
  crashed,        \* an unrecovered panic has ended the process
  started,        \* Run has spawned the executors
  wk,             \* per executor: position in Run's goroutine, current item, retry state, result
  sub,            \* the Submit call in progress (item, and what held when it was issued)
  subLog,         \* per item: how its Submit call ended
  nextItem,       \* the next item the caller submits
  closePc,        \* position of the caller inside Close
  delivered,      \* the Results the caller has read from Results()
  eos,            \* the caller has seen the end of Results()
  panicked,       \* items whose execution has panicked
  atCancel,       \* items that were being executed when the context was cancelled
  queuedAtCancel, \* items that were in the input queue when the context was cancelled
  last,           \* the latest direct call of a Cache Store operation, with its answer
  tx,             \* the write transaction of a Clear in progress (db.Update)
  dbs,            \* per store instance ever made: not made yet, open, or closed (b.db = nil)
  manager,        \* the CacheManager: its cache field and who holds its RWMutex
  mp,             \* per caller of the manager: position inside GetCache / Close / Reset
  runE,           \* position of the root command's RunE, and how it ended
  ext             \* the extraction step: its inputs and what its two passes returned

storeVars == <<last, tx, dbs, manager, mp>>
envVars == <<cfg, fetcher, arch, urls, now, cap, storeVars, runE, ext>>
poolVars == <<jobs, jobsClosed, results, resultsClosed, ctxDone, crashed, started, wk>>
callerVars == <<sub, subLog, nextItem, closePc, delivered, eos>>
vars == <<envVars, cache, poolVars, callerVars, panicked, atCancel, queuedAtCancel>>

\* ----------------------------------------------------------- backoff
RECURSIVE Pow(_, _)
Pow(b, n) == IF n <= 0 THEN 1 ELSE b * Pow(b, n - 1)

MaxDur == Pow(2, DurBits - 1) - 1
MinDur == -Pow(2, DurBits - 1)

\* Integer arithmetic on a time.Duration wraps around (two's complement).
WrapDur(x) == ((x + Pow(2, DurBits - 1)) % Pow(2, DurBits)) - Pow(2, DurBits - 1)

\* time.Duration(f) for a float64 f >= 0 given as the fraction num/den: truncation
\* when the value is representable; otherwise the result is implementation-dependent:
\* amd64 yields the smallest int64, arm64 saturates.
ToDuration(num, den, a) ==
  IF num \div den <= MaxDur THEN num \div den
  ELSE IF a = "amd64" THEN MinDur ELSE MaxDur

\* calculateBackoffDelay(attempt) with rand.Float64() = r / JitterDen.
calculateBackoffDelay(attempt, base, jitter, r, a) ==
  LET delay0 == base * Pow(Multiplier, attempt)
      baseMax == WrapDur(base * MaxDelayFactor)
      maxDelay == IF baseMax > ThirtySeconds THEN baseMax ELSE ThirtySeconds
      delay1 == IF ToDuration(delay0, 1, a) > maxDelay THEN maxDelay ELSE delay0
  IN IF jitter THEN ToDuration(r * delay1, JitterDen, a) ELSE ToDuration(delay1, 1, a)

\* The values rand.Float64() is drawn from when jitter is on (one value when it is off,
\* where the draw is not made).
JitterDraws(jitter) == IF jitter THEN 0..(JitterDen - 1) ELSE {0}

\* ------------------------------------------------------- retry loop
\* The locals of one call of performScrapeWithRetries: the loop variable, lastErr,
\* and, for the record, the Fetcher calls made, the errors the Fetcher returned (in
\* call order), the sleeps taken, the attempt the last sleep came after and its delay.
RetryStart == [attempt |-> 1, lastErr |-> NoErr, calls |-> 0, hist |-> <<>>, sleeps |-> 0,
               after |-> 0, delay |-> 0, done |-> FALSE]

\* The error value the n-th call of scrape returns: result.Err of that call.
AttemptErr(kind, n) == [marker |-> "", kind |-> kind, at |-> n]

\* fmt.Errorf("all attempts failed: %s", lastErr.Error())
AllFailed(lastErr) == [lastErr EXCEPT !.marker = "all attempts failed"]

\* The loop body with the first error kept in lastErr instead of the latest one.
PerformIterKeepsFirst(l, c, a, o, r) ==
  LET e == AttemptErr(o.err, l.calls + 1)
      l1 == [l EXCEPT !.calls = @ + 1]
  IN IF o.ok
       THEN [l1 EXCEPT !.done = TRUE]
       ELSE LET l2 == [l1 EXCEPT !.lastErr = IF l.lastErr = NoErr THEN e ELSE l.lastErr,
                                 !.hist = Append(@, e)]
            IN IF l.attempt < c.Retry
                 THEN [l2 EXCEPT !.sleeps = @ + 1, !.after = l.attempt,
                                 !.delay = calculateBackoffDelay(l.attempt - 1, c.BaseDelay, c.Jitter, r, a),
                                 !.attempt = @ + 1]
                 ELSE [l2 EXCEPT !.attempt = @ + 1]

\* What one call of scrape can meet: whether the request can be built, how client.Do
\* ends, the status code of the response, whether the body can be read and whether
\* processBody accepts it.
ScrapeEnvs ==
  [req : BOOLEAN, do : {"nil", "timeout", "transport"}, status : {200, 404}, read : BOOLEAN,
   body : BOOLEAN]

\* scrape(url) in environment e: the Result, as ok and the kind of its error.
scrape(e) ==
  IF ~e.req THEN [ok |-> FALSE, err |-> "request"]
  ELSE IF e.do # "nil" THEN [ok |-> FALSE, err |-> e.do]
  ELSE IF e.status < 200 \/ e.status >= 300 THEN [ok |-> FALSE, err |-> "status"]
  ELSE IF ~e.read THEN [ok |-> FALSE, err |-> "read"]
  ELSE IF ~e.body THEN [ok |-> FALSE, err |-> "body"]
  ELSE [ok |-> TRUE, err |-> "nil"]

\* A loop body that gives up on a status error.
PerformIterStatusIsFinal(l, c, a, o, r) ==
  LET e == AttemptErr(o.err, l.calls + 1)
      l1 == [l EXCEPT !.calls = @ + 1]
  IN IF o.ok
       THEN [l1 EXCEPT !.done = TRUE]
       ELSE LET l2 == [l1 EXCEPT !.lastErr = e, !.hist = Append(@, e)]
            IN IF l.attempt < c.Retry /\ o.err # "status"
                 THEN [l2 EXCEPT !.sleeps = @ + 1, !.after = l.attempt,
                                 !.delay = calculateBackoffDelay(l.attempt - 1, c.BaseDelay, c.Jitter, r, a),
                                 !.attempt = @ + 1]
                 ELSE [l2 EXCEPT !.attempt = c.Retry + 1]

\* A loop body that goes on after a success while attempts are left.
PerformIterTriesOn(l, c, a, o, r) ==
  LET e == AttemptErr(o.err, l.calls + 1)
      l1 == [l EXCEPT !.calls = @ + 1]
  IN IF o.ok
       THEN (IF l.attempt < c.Retry THEN [l1 EXCEPT !.attempt = @ + 1] ELSE [l1 EXCEPT !.done = TRUE])
       ELSE LET l2 == [l1 EXCEPT !.lastErr = e, !.hist = Append(@, e)]
            IN IF l.attempt < c.Retry
                 THEN [l2 EXCEPT !.sleeps = @ + 1, !.after = l.attempt,
                                 !.delay = calculateBackoffDelay(l.attempt - 1, c.BaseDelay, c.Jitter, r, a),
                                 !.attempt = @ + 1]
                 ELSE [l2 EXCEPT !.attempt = @ + 1]

\* One pass of the loop body with Fetcher outcome o and jitter draw r: scrape, return
\* on success, else remember the error, sleep unless this was the last attempt, attempt++.
PerformIter(l, c, a, o, r) ==
  LET e == AttemptErr(o.err, l.calls + 1)
      l1 == [l EXCEPT !.calls = @ + 1]
  IN IF o.ok
       THEN [l1 EXCEPT !.done = TRUE]
       ELSE LET l2 == [l1 EXCEPT !.lastErr = e, !.hist = Append(@, e)]
            IN IF l.attempt < c.Retry
                 THEN [l2 EXCEPT !.sleeps = @ + 1, !.after = l.attempt,
                                 !.delay = calculateBackoffDelay(l.attempt - 1, c.BaseDelay, c.Jitter, r, a),
                                 !.attempt = @ + 1]
                 ELSE [l2 EXCEPT !.attempt = @ + 1]

\* ------------------------------------------------------ configuration
\* A check that lets a negative retry count through.
ValidateIgnoresRetry(c) ==
  (IF c.Concurrency <= 0 THEN {"concurrency must be greater than 0"} ELSE {})
  \cup (IF c.Timeout <= 0 THEN {"timeout must be greater than 0"} ELSE {})
  \cup (IF c.Output # "JSON" /\ c.Output # "CSV" THEN {"output must be either 'JSON' or 'CSV'"} ELSE {})
  \cup (IF c.BaseDelay <= 0 THEN {"backoff base_delay must be greater than 0"} ELSE {})

\* Config.Validate: the complaints it collects; the configuration is accepted when
\* there are none.
Validate(c) ==
  (IF c.Concurrency <= 0 THEN {"concurrency must be greater than 0"} ELSE {})
  \cup (IF c.Timeout <= 0 THEN {"timeout must be greater than 0"} ELSE {})
  \cup (IF c.Output # "JSON" /\ c.Output # "CSV" THEN {"output must be either 'JSON' or 'CSV'"} ELSE {})
  \cup (IF c.Retry < 0 THEN {"retry count cannot be negative"} ELSE {})
  \cup (IF c.BaseDelay <= 0 THEN {"backoff base_delay must be greater than 0"} ELSE {})

\* ------------------------------------------------------- extraction
\* A string is the sequence of its tokens (words and signs); Sp is a blank, At the
\* sign that parts a selector from its attribute name.
Sp == " "
At == "@"
EmptyStr == <<>>

\* A Go map from strings to lists of strings: no key yet, and m[k] = v.
EmptyMap == [k \in {} |-> <<>>]
MapPut(m, k, v) == [x \in DOMAIN m \cup {k} |-> IF x = k THEN v ELSE m[x]]

\* strings.TrimSpace(t).
RECURSIVE TrimLeft(_)
TrimLeft(t) == IF Len(t) > 0 /\ Head(t) = Sp THEN TrimLeft(Tail(t)) ELSE t
RECURSIVE TrimRight(_)
TrimRight(t) == IF Len(t) > 0 /\ t[Len(t)] = Sp THEN TrimRight(SubSeq(t, 1, Len(t) - 1)) ELSE t
TrimSpace(t) == TrimRight(TrimLeft(t))

\* strings.SplitN(selector, "@", 2): the selector whole, or the parts before and
\* after its first "@".
SplitN(selector) ==
  LET ats == {i \in 1..Len(selector) : selector[i] = At}
  IN IF ats = {} THEN <<selector>>
     ELSE LET i == CHOOSE a \in ats : \A b \in ats : a <= b
          IN <<SubSeq(selector, 1, i - 1), SubSeq(selector, i + 1, Len(selector))>>

\* The ways goquery.NewDocumentFromReader can end, and its answer for a body: the
\* elements of the document in document order, or an error.
ParseOutcomes == {"nil", "failed"}
NewDocumentFromReader(body, o) ==
  IF o = "nil" THEN [err |-> "nil", doc |-> body] ELSE [err |-> "failed", doc |-> <<>>]

\* selection.Attr(attrName) of element el: the value and whether it is there.
Attr(el, attrName) ==
  IF \E a \in el.attrs : a[1] = attrName
    THEN [ok |-> TRUE, value |-> (CHOOSE a \in el.attrs : a[1] = attrName)[2]]
    ELSE [ok |-> FALSE, value |-> EmptyStr]

\* doc.Find(cssSelector).Each(...): for every element the selector matches, in
\* document order, its attribute (empty when it has none) or its trimmed text is
\* appended to currentSelectorResults.
RECURSIVE FindEach(_, _, _)
FindEach(doc, cssSelector, attrName) ==
  IF doc = <<>> THEN <<>>
  ELSE LET el == Head(doc)
           value == IF attrName # EmptyStr
                      THEN (IF Attr(el, attrName).ok THEN Attr(el, attrName).value ELSE EmptyStr)
                      ELSE TrimSpace(el.text)
       IN (IF el.tag = cssSelector THEN <<value>> ELSE <<>>) \o FindEach(Tail(doc), cssSelector, attrName)

\* The loop of applySelectors over the selectors still to do.
RECURSIVE selectorLoop(_, _, _, _)
selectorLoop(doc, selectors, found, allTexts) ==
  IF selectors = <<>> THEN [nil |-> FALSE, results |-> found, texts |-> allTexts]
  ELSE LET selector == Head(selectors)
           parts == SplitN(selector)
           cssSelector == parts[1]
           attrName == IF Len(parts) = 2 THEN parts[2] ELSE EmptyStr
           currentSelectorResults == FindEach(doc, cssSelector, attrName)
       IN selectorLoop(doc, Tail(selectors), MapPut(found, selector, currentSelectorResults),
                       allTexts \o currentSelectorResults)

\* A selector pass that puts each selector's texts in front of the earlier ones.
applySelectorsNewestFirst(body, selectors, o) ==
  LET d == NewDocumentFromReader(body, o)
      r == selectorLoop(d.doc, selectors, EmptyMap, <<>>)
      front == IF selectors = <<>> THEN <<>> ELSE r.results[selectors[Len(selectors)]]
  IN IF d.err # "nil" THEN [nil |-> TRUE, results |-> EmptyMap, texts |-> <<>>]
     ELSE [r EXCEPT !.texts = front \o SubSeq(r.texts, 1, Len(r.texts) - Len(front))]

\* applySelectors(body, selectors), the document being made with outcome o: the map,
\* the flat list, and whether both are nil.
applySelectors(body, selectors, o) ==
  LET d == NewDocumentFromReader(body, o)
  IN IF d.err # "nil" THEN [nil |-> TRUE, results |-> EmptyMap, texts |-> <<>>]
     ELSE selectorLoop(d.doc, selectors, EmptyMap, <<>>)

\* regexp.Compile(pattern) succeeds: the patterns here are literal words, and one
\* with an open bracket does not compile.
Compiles(pattern) == \A i \in 1..Len(pattern) : pattern[i] # "("

\* re.FindAllString(text, -1) for a literal pattern: its occurrences in text, leftmost
\* first, none overlapping another.
RECURSIVE FindAllString(_, _)
FindAllString(pattern, text) ==
  IF Len(text) < Len(pattern) THEN <<>>
  ELSE IF SubSeq(text, 1, Len(pattern)) = pattern
    THEN <<pattern>> \o FindAllString(pattern, SubSeq(text, Len(pattern) + 1, Len(text)))
    ELSE FindAllString(pattern, Tail(text))

\* The inner loop of applyRegexPatterns over the texts.
RECURSIVE textLoop(_, _)
textLoop(pattern, texts) ==
  IF texts = <<>> THEN <<>>
  ELSE FindAllString(pattern, Head(texts)) \o textLoop(pattern, Tail(texts))

\* The loop of applyRegexPatterns over the patterns still to do.
RECURSIVE patternLoop(_, _, _)
patternLoop(texts, patterns, found) ==
  IF patterns = <<>> THEN found
  ELSE IF ~Compiles(Head(patterns)) THEN patternLoop(texts, Tail(patterns), found)
  ELSE patternLoop(texts, Tail(patterns), MapPut(found, Head(patterns), textLoop(Head(patterns), texts)))

\* applyRegexPatterns(texts, patterns).
applyRegexPatterns(texts, patterns) == patternLoop(texts, patterns, EmptyMap)

\* No extraction is under way.
NoSel == [nil |-> FALSE, results |-> EmptyMap, texts |-> <<>>]
NoExt == [selPc |-> "none", patPc |-> "none", body |-> <<>>, selectors |-> <<>>, texts |-> <<>>,
          patterns |-> <<>>, parsed |-> "none", sel |-> NoSel, matches |-> EmptyMap]

\* ------------------------------------------------------- cache store
\* The bucket maps a key to the bytes stored under it: nothing, bytes that are no gob
\* record, or the gob record of a CacheEntry. The bbolt database is taken to work:
\* its transactions on the open file succeed.
EmptyKey == 0
ZeroEntry == [value |-> <<>>, exp |-> 0, mono |-> FALSE]

\* encodeEntry: the gob record of a CacheEntry. A time.Time is written as its instant;
\* its monotonic clock reading is not part of the record.
encodeEntry(e) == [present |-> TRUE, bad |-> FALSE, exp |-> e.exp, value |-> e.value]

\* decodeEntry: the CacheEntry of a gob record, or ErrDecoding for other bytes.
decodeEntry(rec) ==
  IF rec.bad THEN [err |-> "decode", entry |-> ZeroEntry]
  ELSE [err |-> "nil", entry |-> [value |-> rec.value, exp |-> rec.exp, mono |-> FALSE]]

\* t.Equal(u): the same instant, whatever the monotonic readings.
TimeEqual(t, u) == t = u

\* A lookup that drops a record it cannot decode.
GetDropsUnreadable(b, key) ==
  IF key = EmptyKey THEN [err |-> "empty key", entry |-> ZeroEntry, bucket |-> b]
  ELSE IF ~b[key].present THEN [err |-> "not found", entry |-> ZeroEntry, bucket |-> b]
  ELSE [err |-> decodeEntry(b[key]).err, entry |-> decodeEntry(b[key]).entry,
        bucket |-> IF b[key].bad THEN [b EXCEPT ![key] = NoEntry] ELSE b]

\* boltCache.Get(key) on bucket b, in a read-only transaction (db.View): the error,
\* the entry and the bucket afterwards.
Get(b, key) ==
  IF key = EmptyKey THEN [err |-> "empty key", entry |-> ZeroEntry, bucket |-> b]
  ELSE IF ~b[key].present THEN [err |-> "not found", entry |-> ZeroEntry, bucket |-> b]
  ELSE [err |-> decodeEntry(b[key]).err, entry |-> decodeEntry(b[key]).entry, bucket |-> b]

\* Set that leaves a key alone when it already holds something.
SetKeepsExisting(b, key, e) ==
  IF key = EmptyKey THEN [err |-> "empty key", bucket |-> b]
  ELSE [err |-> "nil", bucket |-> IF b[key].present THEN b ELSE [b EXCEPT ![key] = encodeEntry(e)]]

\* boltCache.Set(key, entry) on bucket b: the error and the bucket afterwards.
Set(b, key, e) ==
  IF key = EmptyKey THEN [err |-> "empty key", bucket |-> b]
  ELSE [err |-> "nil", bucket |-> [b EXCEPT ![key] = encodeEntry(e)]]

\* Delete that reports a key it does not find.
DeleteMissingFails(b, key) ==
  IF key = EmptyKey THEN [err |-> "empty key", bucket |-> b]
  ELSE IF ~b[key].present THEN [err |-> "not found", bucket |-> b]
  ELSE [err |-> "nil", bucket |-> [b EXCEPT ![key] = NoEntry]]

\* boltCache.Delete(key) on bucket b: the error and the bucket afterwards.
Delete(b, key) ==
  IF key = EmptyKey THEN [err |-> "empty key", bucket |-> b]
  ELSE [err |-> "nil", bucket |-> [b EXCEPT ![key] = NoEntry]]

NoOp == [op |-> "none", key |-> EmptyKey, arg |-> ZeroEntry, err |-> "none", entry |-> ZeroEntry,
         prev |-> [k \in Keys |-> NoEntry], open |-> TRUE]

\* Store instances (values of type *boltCache); NoInst is the nil interface value.
Insts == 1..MaxInst
NoInst == 0
\* The instance the run holds.
TheStore == 1

\* A store operation op has been called and has answered; what the store was before.
Called(op, key, arg, err, entry) ==
  [op |-> op, key |-> key, arg |-> arg, err |-> err, entry |-> entry,
   prev |-> cache, open |-> dbs[TheStore] = "open"]

\* No write transaction is open.
EmptyBucket == [k \in Keys |-> NoEntry]
NoTx == [pc |-> "none", bucket |-> EmptyBucket, prev |-> EmptyBucket]

\* The way an operation of the database can end.
DbOutcomes == {"nil", "failed"}

\* tx.DeleteBucket(bucketName) inside the transaction t.
DeleteBucket(t, o) ==
  IF o = "nil" THEN [t EXCEPT !.pc = "create", !.bucket = EmptyBucket]
  ELSE [t EXCEPT !.pc = "failed"]

\* tx.CreateBucket(bucketName) inside the transaction t.
CreateBucket(t, o) ==
  IF o = "nil" THEN [t EXCEPT !.pc = "commit"] ELSE [t EXCEPT !.pc = "failed"]

\* An abort that leaves the work of the transaction in the file.
RollbackKeepsWork(b, t) == t.bucket

\* db.Update whose function returned an error: the transaction is rolled back and
\* the file b is what it was.
Rollback(b, t) == b

\* db.Update whose function returned nil: the work of the transaction replaces b.
Commit(b, t) == t.bucket

\* The CacheManager before any call; a caller that is not inside a call.
Procs == 1..NumProcs
NoProc == 0
NewManager == [cache |-> NoInst, readers |-> {}, writer |-> NoProc]
NoCall == [pc |-> "idle", op |-> "none", ret |-> NoInst, err |-> "none", made |-> NoInst,
           was |-> "none"]

\* ------------------------------------------------------ worker pool
NotLooked == [err |-> "none", entry |-> ZeroEntry]
Idle == [pc |-> "none", item |-> NoItem, l |-> RetryStart, res |-> NoResult,
         seen |-> NotLooked, at |-> 0, verdict |-> "none", seqs |-> 0, ops |-> <<>>]

\* A call of a Cache Store operation, as the job's record of it.
Op(name, key) == [op |-> name, key |-> key]
AtSelect == [Idle EXCEPT !.pc = "select"]
Exited == [Idle EXCEPT !.pc = "exited"]

KeyOf(i) == urls[i]

\* Items an executor holds: dequeued, and their Result not yet in the output queue.
Held == {wk[w].item : w \in {v \in DOMAIN wk : wk[v].pc \in {"cache", "cleanup", "fetch", "send"}}}
\* Items an executor is running: inside job(), before the send of its Result.
Running == {wk[w].item : w \in {v \in DOMAIN wk : wk[v].pc \in {"cache", "cleanup", "fetch"}}}

\* A Run that starts one executor too many.
RunOneMore ==
  /\ ~crashed /\ ~started
  /\ started' = TRUE
  /\ wk' = [w \in 1..(cfg.Concurrency + 1) |-> AtSelect]
  /\ UNCHANGED <<envVars, cache, jobs, jobsClosed, results, resultsClosed, ctxDone, crashed,
                 callerVars, panicked, atCancel, queuedAtCancel>>

\* Run(ctx, workerCount), called with cfg.Concurrency: wg.Add(workerCount) and one
\* goroutine per pass of the loop, each at its select.
Run ==
  /\ ~crashed /\ ~started
  /\ started' = TRUE
  /\ wk' = [w \in 1..cfg.Concurrency |-> AtSelect]
  /\ UNCHANGED <<envVars, cache, jobs, jobsClosed, results, resultsClosed, ctxDone, crashed,
                 callerVars, panicked, atCancel, queuedAtCancel>>

\* The executor's select, case <-ctx.Done(): return (and wg.Done()).
WorkerCtxDone(w) ==
  /\ ~crashed /\ wk[w].pc = "select" /\ ctxDone
  /\ wk' = [wk EXCEPT ![w] = Exited]
  /\ UNCHANGED <<envVars, cache, jobs, jobsClosed, results, resultsClosed, ctxDone, crashed,
                 started, callerVars, panicked, atCancel, queuedAtCancel>>

\* A receive that leaves the item in the queue.
WorkerDequeuePeeks(w) ==
  /\ ~crashed /\ wk[w].pc = "select" /\ Len(jobs) > 0
  /\ wk' = [wk EXCEPT ![w] = [Idle EXCEPT !.pc = "cache", !.item = Head(jobs)]]
  /\ UNCHANGED <<envVars, cache, jobs, jobsClosed, results, resultsClosed, ctxDone, crashed,
                 started, callerVars, panicked, atCancel, queuedAtCancel>>

\* The executor's select, case job, ok := <-wp.jobs with ok: the job starts (ScrapeWithRetry).
WorkerDequeue(w) ==
  /\ ~crashed /\ wk[w].pc = "select" /\ Len(jobs) > 0
  /\ jobs' = Tail(jobs)
  /\ wk' = [wk EXCEPT ![w] = [Idle EXCEPT !.pc = "cache", !.item = Head(jobs)]]
  /\ UNCHANGED <<envVars, cache, jobsClosed, results, resultsClosed, ctxDone, crashed,
                 started, callerVars, panicked, atCancel, queuedAtCancel>>

\* The executor's select, case job, ok := <-wp.jobs with !ok (closed and drained): return.
WorkerJobsClosed(w) ==
  /\ ~crashed /\ wk[w].pc = "select" /\ Len(jobs) = 0 /\ jobsClosed
  /\ wk' = [wk EXCEPT ![w] = Exited]
  /\ UNCHANGED <<envVars, cache, jobs, jobsClosed, results, resultsClosed, ctxDone, crashed,
                 started, callerVars, panicked, atCancel, queuedAtCancel>>

\* checkCache(url): what it makes of Get's answer g at time t.
\* A cache check that returns whatever a failed Get left in its answer.
CacheVerdictTrustsFailedGet(g, t) ==
  IF g.err = "not found" THEN "notfound"
  ELSE IF g.err = "nil" /\ t > g.entry.exp THEN "expired"
  ELSE "hit"

\* A cache check that takes a valid entry for a missing one.
CacheVerdictValidIsMissing(g, t) ==
  IF g.err # "nil" /\ g.err # "not found" THEN "error"
  ELSE IF g.err = "not found" THEN "notfound"
  ELSE IF t > g.entry.exp THEN "expired"
  ELSE "notfound"

\* A cache check for which no entry is ever valid.
CacheVerdictNeverValid(g, t) ==
  IF g.err # "nil" /\ g.err # "not found" THEN "error"
  ELSE IF g.err = "not found" THEN "notfound"
  ELSE "expired"

\* checkCache on Get's answer g at time t: what it makes of it.
CacheVerdict(g, t) ==
  IF g.err # "nil" /\ g.err # "not found" THEN "error"
  ELSE IF g.err = "not found" THEN "notfound"
  ELSE IF t > g.entry.exp THEN "expired"
  ELSE "hit"

\* The payload of a successful scrape: a ScrapedData.
Scraped(i) == [type |-> "ScrapedData", bytes |-> <<i>>, exp |-> 0]

\* The bytes ScrapeWithRetry's type switch takes from result.Value for the cache:
\* those of a []byte or a string, none for any other type.
CacheableBytes(v) == IF v.type \in {"bytes", "string"} THEN v.bytes ELSE <<>>

\* storeCacheResult(url, data) at time t: Set with expires_at = t + cfg.Database.Expiration
\* (an error of Set is only logged).
storeCacheResult(b, key, data, t, ttl) ==
  Set(b, key, [value |-> data, exp |-> t + ttl, mono |-> TRUE]).bucket

\* A cleanup that leaves the entry where it is.
cleanupLeavesEntry(b, key) == b

\* cleanupExpiredCache(url): Delete (an error of Delete is only logged).
cleanupExpiredCache(b, key) == Delete(b, key).bucket

\* A job that consults the cache whether or not force-refresh is set.
WorkerCheckCacheIgnoresForce(w) ==
  /\ ~crashed /\ wk[w].pc = "cache"
  /\ LET k == KeyOf(wk[w].item)
         g0 == Get(cache, k)
         g == [err |-> g0.err, entry |-> g0.entry]
         v == CacheVerdict(g, now)
     IN /\ wk' = [wk EXCEPT ![w] =
                    IF v = "hit"
                      THEN [@ EXCEPT !.pc = "send", !.seen = g, !.at = now, !.verdict = v,
                                     !.ops = <<Op("Get", k)>>,
                                     !.res = [item |-> wk[w].item, ok |-> TRUE, cached |-> TRUE, err |-> NoErr,
                                              value |-> [type |-> "CacheEntry", bytes |-> g.entry.value,
                                                         exp |-> g.entry.exp]]]
                      ELSE IF v = "expired"
                        THEN [@ EXCEPT !.pc = "cleanup", !.seen = g, !.at = now, !.verdict = v,
                                       !.ops = <<Op("Get", k)>>]
                        ELSE [@ EXCEPT !.pc = "fetch", !.seen = g, !.at = now, !.verdict = v,
                                       !.ops = <<Op("Get", k)>>, !.l = RetryStart, !.seqs = @ + 1]]
        /\ cache' = g0.bucket
  /\ UNCHANGED <<envVars, jobs, jobsClosed, results, resultsClosed, ctxDone, crashed,
                 started, callerVars, panicked, atCancel, queuedAtCancel>>

\* A cache check with sliding expiration: a hit writes the entry back with a new
\* expiration time.
WorkerCheckCacheSlides(w) ==
  /\ ~crashed /\ wk[w].pc = "cache"
  /\ LET k == KeyOf(wk[w].item)
         g0 == Get(cache, k)
         g == IF cfg.Force THEN NotLooked ELSE [err |-> g0.err, entry |-> g0.entry]
         v == IF cfg.Force THEN "skipped" ELSE CacheVerdict(g, now)
         issued == IF cfg.Force THEN <<>> ELSE <<Op("Get", k)>>
     IN /\ wk' = [wk EXCEPT ![w] =
                    IF v = "hit"
                      THEN [@ EXCEPT !.pc = "send", !.seen = g, !.at = now, !.verdict = v, !.ops = issued,
                                     !.res = [item |-> wk[w].item, ok |-> TRUE, cached |-> TRUE, err |-> NoErr,
                                              value |-> [type |-> "CacheEntry", bytes |-> g.entry.value,
                                                         exp |-> g.entry.exp]]]
                      ELSE IF v = "expired"
                        THEN [@ EXCEPT !.pc = "cleanup", !.seen = g, !.at = now, !.verdict = v, !.ops = issued]
                        ELSE [@ EXCEPT !.pc = "fetch", !.seen = g, !.at = now, !.verdict = v, !.ops = issued,
                                       !.l = RetryStart, !.seqs = @ + 1]]
        /\ cache' = IF cfg.Force THEN cache
                    ELSE IF v = "hit" THEN storeCacheResult(cache, k, g.entry.value, now, cfg.Expiration + 1)
                    ELSE g0.bucket
  /\ UNCHANGED <<envVars, jobs, jobsClosed, results, resultsClosed, ctxDone, crashed,
                 started, callerVars, panicked, atCancel, queuedAtCancel>>

\* ScrapeWithRetry up to the cleanup or the retry loop: unless cfg.Force, checkCache
\* calls Get and reads the clock; a hit is the Result; an expired entry goes to
\* cleanupExpiredCache; everything else goes on to performScrapeWithRetries.
WorkerCheckCache(w) ==
  /\ ~crashed /\ wk[w].pc = "cache"
  /\ LET k == KeyOf(wk[w].item)
         g0 == Get(cache, k)
         g == IF cfg.Force THEN NotLooked ELSE [err |-> g0.err, entry |-> g0.entry]
         v == IF cfg.Force THEN "skipped" ELSE CacheVerdict(g, now)
         issued == IF cfg.Force THEN <<>> ELSE <<Op("Get", k)>>
     IN /\ wk' = [wk EXCEPT ![w] =
                    IF v = "hit"
                      THEN [@ EXCEPT !.pc = "send", !.seen = g, !.at = now, !.verdict = v, !.ops = issued,
                                     !.res = [item |-> wk[w].item, ok |-> TRUE, cached |-> TRUE, err |-> NoErr,
                                              value |-> [type |-> "CacheEntry", bytes |-> g.entry.value,
                                                         exp |-> g.entry.exp]]]
                      ELSE IF v = "expired"
                        THEN [@ EXCEPT !.pc = "cleanup", !.seen = g, !.at = now, !.verdict = v, !.ops = issued]
                        ELSE [@ EXCEPT !.pc = "fetch", !.seen = g, !.at = now, !.verdict = v, !.ops = issued,
                                       !.l = RetryStart, !.seqs = @ + 1]]
        /\ cache' = IF cfg.Force THEN cache ELSE g0.bucket
  /\ UNCHANGED <<envVars, jobs, jobsClosed, results, resultsClosed, ctxDone, crashed,
                 started, callerVars, panicked, atCancel, queuedAtCancel>>

\* checkCache on an expired entry: cleanupExpiredCache deletes what the key holds by
\* now, in a transaction of its own, and the job goes on to performScrapeWithRetries.
WorkerCleanup(w) ==
  /\ ~crashed /\ wk[w].pc = "cleanup"
  /\ wk' = [wk EXCEPT ![w] = [@ EXCEPT !.pc = "fetch", !.l = RetryStart, !.seqs = @ + 1,
                                       !.ops = Append(@, Op("Delete", KeyOf(wk[w].item)))]]
  /\ cache' = cleanupExpiredCache(cache, KeyOf(wk[w].item))
  /\ UNCHANGED <<envVars, jobs, jobsClosed, results, resultsClosed, ctxDone, crashed,
                 started, callerVars, panicked, atCancel, queuedAtCancel>>

\* One pass of the retry loop of performScrapeWithRetries; on success ScrapeWithRetry
\* returns the Result, after storing in the cache the bytes its type switch finds.
WorkerAttempt(w) ==
  /\ ~crashed /\ wk[w].pc = "fetch" /\ wk[w].l.attempt <= cfg.Retry
  /\ \E o \in fetcher, r \in JitterDraws(cfg.Jitter) :
       LET l2 == PerformIter(wk[w].l, cfg, arch, o, r)
           v == Scraped(wk[w].item)
           data == CacheableBytes(v)
       IN /\ wk' = [wk EXCEPT ![w] =
                      IF l2.done
                        THEN [@ EXCEPT !.pc = "send", !.l = l2,
                                       !.ops = IF Len(data) > 0
                                                 THEN Append(@, Op("Set", KeyOf(wk[w].item))) ELSE @,
                                       !.res = [item |-> wk[w].item, ok |-> TRUE, cached |-> FALSE,
                                                err |-> NoErr, value |-> v]]
                        ELSE [@ EXCEPT !.l = l2]]
          /\ cache' = IF l2.done /\ Len(data) > 0
                        THEN storeCacheResult(cache, KeyOf(wk[w].item), data, now, cfg.Expiration)
                        ELSE cache
  /\ UNCHANGED <<envVars, jobs, jobsClosed, results, resultsClosed, ctxDone, crashed,
                 started, callerVars, panicked, atCancel, queuedAtCancel>>

\* A job that stores its failure: the error text is written as the entry of the key.
WorkerExhaustedStores(w) ==
  /\ ~crashed /\ wk[w].pc = "fetch" /\ wk[w].l.attempt > cfg.Retry
  /\ wk[w].l.lastErr # NoErr
  /\ wk' = [wk EXCEPT ![w] = [@ EXCEPT !.pc = "send",
                                       !.ops = Append(@, Op("Set", KeyOf(wk[w].item))),
                                       !.res = [item |-> wk[w].item, ok |-> FALSE, cached |-> FALSE,
                                                err |-> AllFailed(wk[w].l.lastErr), value |-> NoValue]]]
  /\ cache' = storeCacheResult(cache, KeyOf(wk[w].item), <<>>, now, cfg.Expiration)
  /\ UNCHANGED <<envVars, jobs, jobsClosed, results, resultsClosed, ctxDone, crashed,
                 started, callerVars, panicked, atCancel, queuedAtCancel>>

\* The loop has ended without a success and lastErr is set: the failure Result.
WorkerExhausted(w) ==
  /\ ~crashed /\ wk[w].pc = "fetch" /\ wk[w].l.attempt > cfg.Retry
  /\ wk[w].l.lastErr # NoErr
  /\ wk' = [wk EXCEPT ![w] = [@ EXCEPT !.pc = "send",
                                       !.res = [item |-> wk[w].item, ok |-> FALSE, cached |-> FALSE,
                                                err |-> AllFailed(wk[w].l.lastErr), value |-> NoValue]]]
  /\ UNCHANGED <<envVars, cache, jobs, jobsClosed, results, resultsClosed, ctxDone, crashed,
                 started, callerVars, panicked, atCancel, queuedAtCancel>>

\* The loop has ended with lastErr still nil (no attempt was made): lastErr.Error()
\* dereferences nil; nothing recovers the panic.
WorkerNilDeref(w) ==
  /\ ~crashed /\ wk[w].pc = "fetch" /\ wk[w].l.attempt > cfg.Retry
  /\ wk[w].l.lastErr = NoErr
  /\ crashed' = TRUE
  /\ panicked' = panicked \cup {wk[w].item}
  /\ UNCHANGED <<envVars, cache, jobs, jobsClosed, results, resultsClosed, ctxDone,
                 started, wk, callerVars, atCancel, queuedAtCancel>>

\* An executor that ends when its job has returned an error.
WorkerSendEndsOnError(w) ==
  /\ ~crashed /\ wk[w].pc = "send" /\ Len(results) < cap
  /\ results' = Append(results, wk[w].res)
  /\ wk' = [wk EXCEPT ![w] = IF wk[w].res.ok THEN AtSelect ELSE Exited]
  /\ UNCHANGED <<envVars, cache, jobs, jobsClosed, resultsClosed, ctxDone, crashed,
                 started, callerVars, panicked, atCancel, queuedAtCancel>>

\* wp.results <- job(): the send of the Result, which waits while the queue is full.
WorkerSend(w) ==
  /\ ~crashed /\ wk[w].pc = "send" /\ Len(results) < cap
  /\ results' = Append(results, wk[w].res)
  /\ wk' = [wk EXCEPT ![w] = AtSelect]
  /\ UNCHANGED <<envVars, cache, jobs, jobsClosed, resultsClosed, ctxDone, crashed,
                 started, callerVars, panicked, atCancel, queuedAtCancel>>

\* ----------------------------------------------------------- callers
\* cancel(): the context of Run and Submit is done from now on.
Cancel ==
  /\ ~crashed /\ ~ctxDone
  /\ ctxDone' = TRUE
  /\ atCancel' = Running
  /\ queuedAtCancel' = {jobs[n] : n \in 1..Len(jobs)}
  /\ UNCHANGED <<envVars, cache, jobs, jobsClosed, results, resultsClosed, crashed,
                 started, wk, callerVars, panicked>>

\* The caller enters Submit(ctx, job) for its next item.
SubmitCall ==
  /\ ~crashed /\ sub = NoSub /\ nextItem <= Len(urls)
  /\ sub' = [item |-> nextItem, cancelledAtCall |-> ctxDone, closedAtCall |-> closePc # "open"]
  /\ nextItem' = nextItem + 1
  /\ UNCHANGED <<envVars, cache, poolVars, subLog, closePc, delivered, eos, panicked, atCancel, queuedAtCancel>>

\* Submit's select, case <-ctx.Done(): return ctx.Err().
SubmitCtxDone ==
  /\ ~crashed /\ sub # NoSub /\ ctxDone
  /\ subLog' = [subLog EXCEPT ![sub.item] = [ret |-> "cancelled", cancelledAtCall |-> sub.cancelledAtCall,
                                             closedAtCall |-> sub.closedAtCall]]
  /\ sub' = NoSub
  /\ UNCHANGED <<envVars, cache, poolVars, nextItem, closePc, delivered, eos, panicked, atCancel, queuedAtCancel>>

\* A send that does not wait for room in the queue.
SubmitSendNoWait ==
  /\ ~crashed /\ sub # NoSub /\ ~jobsClosed
  /\ jobs' = Append(jobs, sub.item)
  /\ subLog' = [subLog EXCEPT ![sub.item] = [ret |-> "nil", cancelledAtCall |-> sub.cancelledAtCall,
                                             closedAtCall |-> sub.closedAtCall]]
  /\ sub' = NoSub
  /\ UNCHANGED <<envVars, cache, jobsClosed, results, resultsClosed, ctxDone, crashed, started, wk,
                 nextItem, closePc, delivered, eos, panicked, atCancel, queuedAtCancel>>

\* Submit's select, case wp.jobs <- job on an open channel with room: return nil.
SubmitSend ==
  /\ ~crashed /\ sub # NoSub /\ ~jobsClosed /\ Len(jobs) < cap
  /\ jobs' = Append(jobs, sub.item)
  /\ subLog' = [subLog EXCEPT ![sub.item] = [ret |-> "nil", cancelledAtCall |-> sub.cancelledAtCall,
                                             closedAtCall |-> sub.closedAtCall]]
  /\ sub' = NoSub
  /\ UNCHANGED <<envVars, cache, jobsClosed, results, resultsClosed, ctxDone, crashed, started, wk,
                 nextItem, closePc, delivered, eos, panicked, atCancel, queuedAtCancel>>

\* Submit's select, case wp.jobs <- job on a closed channel: the send panics.
SubmitClosed ==
  /\ ~crashed /\ sub # NoSub /\ jobsClosed
  /\ crashed' = TRUE
  /\ subLog' = [subLog EXCEPT ![sub.item] = [ret |-> "panic", cancelledAtCall |-> sub.cancelledAtCall,
                                             closedAtCall |-> sub.closedAtCall]]
  /\ sub' = NoSub
  /\ UNCHANGED <<envVars, cache, jobs, jobsClosed, results, resultsClosed, ctxDone, started, wk,
                 nextItem, closePc, delivered, eos, panicked, atCancel, queuedAtCancel>>

\* Close(), first statement: close(wp.jobs); the caller then waits in wp.wg.Wait().
CloseJobs ==
  /\ ~crashed /\ started /\ closePc = "open"
  /\ jobsClosed' = TRUE
  /\ closePc' = "waiting"
  /\ UNCHANGED <<envVars, cache, jobs, results, resultsClosed, ctxDone, crashed, started, wk,
                 sub, subLog, nextItem, delivered, eos, panicked, atCancel, queuedAtCancel>>

\* A Close() that closes the output queue without waiting for the executors.
CloseFinishNoWait ==
  /\ ~crashed /\ closePc = "waiting"
  /\ resultsClosed' = TRUE
  /\ closePc' = "returned"
  /\ UNCHANGED <<envVars, cache, jobs, jobsClosed, results, ctxDone, crashed, started, wk,
                 sub, subLog, nextItem, delivered, eos, panicked, atCancel, queuedAtCancel>>

\* Close(), the rest: wp.wg.Wait() returns once every executor has returned, then
\* close(wp.results).
CloseFinish ==
  /\ ~crashed /\ closePc = "waiting"
  /\ \A w \in DOMAIN wk : wk[w].pc = "exited"
  /\ resultsClosed' = TRUE
  /\ closePc' = "returned"
  /\ UNCHANGED <<envVars, cache, jobs, jobsClosed, results, ctxDone, crashed, started, wk,
                 sub, subLog, nextItem, delivered, eos, panicked, atCancel, queuedAtCancel>>

\* A receive that takes the Result published last.
ReadNewest ==
  /\ ~crashed /\ ~eos /\ Len(results) > 0
  /\ delivered' = Append(delivered, results[Len(results)])
  /\ results' = SubSeq(results, 1, Len(results) - 1)
  /\ UNCHANGED <<envVars, cache, jobs, jobsClosed, resultsClosed, ctxDone, crashed, started, wk,
                 sub, subLog, nextItem, closePc, eos, panicked, atCancel, queuedAtCancel>>

\* The caller receives one Result from Results().
Read ==
  /\ ~crashed /\ ~eos /\ Len(results) > 0
  /\ delivered' = Append(delivered, Head(results))
  /\ results' = Tail(results)
  /\ UNCHANGED <<envVars, cache, jobs, jobsClosed, resultsClosed, ctxDone, crashed, started, wk,
                 sub, subLog, nextItem, closePc, eos, panicked, atCancel, queuedAtCancel>>

\* The caller's range over Results() ends: the channel is closed and drained.
ReadEnd ==
  /\ ~crashed /\ ~eos /\ Len(results) = 0 /\ resultsClosed
  /\ eos' = TRUE
  /\ UNCHANGED <<envVars, cache, poolVars, sub, subLog, nextItem, closePc, delivered, panicked, atCancel, queuedAtCancel>>

\* ------------------------------------------------- the pool, any caller
Fresh == [present |-> TRUE, bad |-> FALSE, exp |-> 2, value |-> <<7>>]
Stale == [present |-> TRUE, bad |-> FALSE, exp |-> 0, value |-> <<8>>]
Malformed == [present |-> TRUE, bad |-> TRUE, exp |-> 0, value |-> <<>>]

NotSubmitted == [ret |-> "none", cancelledAtCall |-> FALSE, closedAtCall |-> FALSE]

\* The state after New(workerCount, bufferSize) for a batch u and a configuration c:
\* the caller is past its check of the configuration.
InitRun(c, u, workerCount, bufferSize) ==
  /\ cfg = c
  /\ runE = IF Validate(c) = {} THEN "processURLs" ELSE "failed"
  /\ urls = u
  /\ now = 1
  /\ cap = bufferSize
  /\ jobs = <<>> /\ jobsClosed = FALSE
  /\ results = <<>> /\ resultsClosed = FALSE
  /\ ctxDone = FALSE /\ crashed = FALSE /\ started = FALSE
  /\ wk = [w \in 1..workerCount |-> Idle]
  /\ sub = NoSub
  /\ subLog = [i \in 1..Len(u) |-> NotSubmitted]
  /\ nextItem = 1
  /\ closePc = "open"
  /\ delivered = <<>> /\ eos = FALSE
  /\ panicked = {} /\ atCancel = {} /\ queuedAtCancel = {}

\* The same, with the store App.New got from the cache manager.
InitPool(c, u, workerCount, bufferSize) ==
  /\ InitRun(c, u, workerCount, bufferSize)
  /\ ext = NoExt
  /\ last = NoOp /\ tx = NoTx
  /\ dbs = [i \in Insts |-> IF i = TheStore THEN "open" ELSE "unborn"]
  /\ manager = [NewManager EXCEPT !.cache = TheStore]
  /\ mp = [p \in Procs |-> NoCall]

DefaultCfg == [Concurrency |-> NumWorkers, Timeout |-> 1, Output |-> "JSON", Retry |-> MaxRetry,
               BaseDelay |-> 1, Jitter |-> FALSE, Force |-> FALSE, Expiration |-> 1]

\* A Fetcher that can succeed, and can fail in one way.
PlainFetcher == {[ok |-> TRUE, err |-> "nil"], [ok |-> FALSE, err |-> "timeout"]}

\* A store that holds an expired entry for the first key and a valid one for the others.
MixedCache == [k \in Keys |-> IF k = 1 THEN Stale ELSE Fresh]

\* The batch of n items over the keys, round robin.
RoundRobin(n) == [i \in 1..n |-> ((i - 1) % NumKeys) + 1]

Init ==
  /\ arch = "amd64"
  /\ fetcher = PlainFetcher
  /\ cache = MixedCache
  /\ \E retry \in 0..MaxRetry :
       InitPool([DefaultCfg EXCEPT !.Retry = retry], RoundRobin(NumItems), NumWorkers, QueueCap)

Next ==
  \/ Run
  \/ Cancel
  \/ SubmitCall
  \/ SubmitCtxDone
  \/ SubmitSend
  \/ SubmitClosed
  \/ CloseJobs
  \/ CloseFinish
  \/ Read
  \/ ReadEnd
  \/ \E w \in DOMAIN wk : WorkerCtxDone(w)
  \/ \E w \in DOMAIN wk : WorkerDequeue(w)
  \/ \E w \in DOMAIN wk : WorkerJobsClosed(w)
  \/ \E w \in DOMAIN wk : WorkerCheckCache(w)
  \/ \E w \in DOMAIN wk : WorkerCleanup(w)
  \/ \E w \in DOMAIN wk : WorkerAttempt(w)
  \/ \E w \in DOMAIN wk : WorkerExhausted(w)
  \/ \E w \in DOMAIN wk : WorkerNilDeref(w)
  \/ \E w \in DOMAIN wk : WorkerSend(w)

Spec == Init /\ [][Next]_vars

\* ------------------------------------------- one job, called directly
\* A Fetcher that fails on every call, in either way.
AlwaysFails == {[ok |-> FALSE, err |-> e] : e \in ErrKinds}

\* Backoff base delays, in seconds; Validate turns the first one down.
BaseDelays == {0, 1, 2}

RetryConfigs ==
  {[DefaultCfg EXCEPT !.Retry = n, !.BaseDelay = b, !.Jitter = j] :
     n \in -1..MaxAttempts, b \in BaseDelays, j \in BOOLEAN}

\* setupConfig has accepted the configuration (Validate returned nil) and
\* ScrapeWithRetry(url) is called for the one item.
CallScrape ==
  /\ ~crashed /\ ~started /\ Validate(cfg) = {}
  /\ wk[1].pc = "none"
  /\ wk' = [wk EXCEPT ![1] = [Idle EXCEPT !.pc = "cache", !.item = 1]]
  /\ UNCHANGED <<envVars, cache, jobs, jobsClosed, results, resultsClosed, ctxDone, crashed,
                 started, callerVars, panicked, atCancel, queuedAtCancel>>

RetryInit ==
  /\ arch \in Archs
  /\ fetcher \in {PlainFetcher, AlwaysFails}
  /\ cache = MixedCache
  /\ \E c \in RetryConfigs : InitPool(c, RoundRobin(1), 1, 1)

RetryNext ==
  \/ CallScrape
  \/ \E w \in DOMAIN wk : WorkerCheckCache(w)
  \/ \E w \in DOMAIN wk : WorkerCleanup(w)
  \/ \E w \in DOMAIN wk : WorkerAttempt(w)
  \/ \E w \in DOMAIN wk : WorkerExhausted(w)
  \/ \E w \in DOMAIN wk : WorkerNilDeref(w)

RetrySpec == RetryInit /\ [][RetryNext]_vars

\* ------------------------- one job whose Fetcher can fail in every way
\* The Fetcher as scrape makes it: every outcome some environment gives.
AnyOutcome == {scrape(e) : e \in ScrapeEnvs}

ScrapeInit ==
  /\ arch = "amd64"
  /\ fetcher = AnyOutcome
  /\ cache = MixedCache
  /\ \E n \in 0..MaxTries : InitPool([DefaultCfg EXCEPT !.Retry = n], RoundRobin(1), 1, 1)

ScrapeSpec == ScrapeInit /\ [][RetryNext]_vars

\* --------------------------- successive jobs over a cache, called directly
\* ScrapeWithRetry(url) is called for the next item of the batch.
CacheCall ==
  /\ ~crashed /\ ~started
  /\ wk[1].pc = "none" /\ nextItem <= Len(urls)
  /\ wk' = [wk EXCEPT ![1] = [Idle EXCEPT !.pc = "cache", !.item = nextItem]]
  /\ nextItem' = nextItem + 1
  /\ UNCHANGED <<envVars, cache, jobs, jobsClosed, results, resultsClosed, ctxDone, crashed,
                 started, sub, subLog, closePc, delivered, eos, panicked, atCancel, queuedAtCancel>>

\* The call has returned: the caller has its Result.
CacheReturn ==
  /\ ~crashed /\ wk[1].pc = "send"
  /\ delivered' = Append(delivered, wk[1].res)
  /\ wk' = [wk EXCEPT ![1] = [@ EXCEPT !.pc = "none"]]
  /\ UNCHANGED <<envVars, cache, jobs, jobsClosed, results, resultsClosed, ctxDone, crashed,
                 started, sub, subLog, nextItem, closePc, eos, panicked, atCancel, queuedAtCancel>>

\* The wall clock advances.
Tick ==
  /\ now < MaxTime
  /\ now' = now + 1
  /\ UNCHANGED <<cfg, fetcher, arch, urls, cap, storeVars, runE, ext, cache, poolVars, callerVars, panicked,
                 atCancel, queuedAtCancel>>

\* The records a cache file may hold for a key when a run starts.
StoredRecords == {NoEntry, Malformed, Fresh, Stale}

CacheInit ==
  /\ arch = "amd64"
  /\ fetcher = PlainFetcher
  /\ cache \in [Keys -> StoredRecords]
  /\ \E force \in BOOLEAN, retry \in 0..MaxRetry, u \in [1..NumItems -> Keys] :
       InitPool([DefaultCfg EXCEPT !.Force = force, !.Retry = retry], u, 1, 1)

CacheNext ==
  \/ CacheCall
  \/ CacheReturn
  \/ Tick
  \/ \E w \in DOMAIN wk : WorkerCheckCache(w)
  \/ \E w \in DOMAIN wk : WorkerCleanup(w)
  \/ \E w \in DOMAIN wk : WorkerAttempt(w)
  \/ \E w \in DOMAIN wk : WorkerExhausted(w)
  \/ \E w \in DOMAIN wk : WorkerNilDeref(w)

CacheSpec == CacheInit /\ [][CacheNext]_vars

\* ------------------------------------- the Cache Store, called directly
\* The entries a caller may store: payloads, expiration instants, with or without a
\* monotonic clock reading (time.Now() has one).
Payloads == {<<>>, <<7>>, <<8>>}
Expirations == {0, MaxTime}
EntryChoices == {[value |-> v, exp |-> t, mono |-> m] : v \in Payloads, t \in Expirations, m \in BOOLEAN}
KeyChoices == Keys \cup {EmptyKey}

\* What a store call leaves alone besides the store.
StoreFrame == <<cfg, fetcher, arch, urls, now, cap, dbs, manager, mp, runE, ext, jobs, jobsClosed, results,
                resultsClosed, ctxDone, started, wk, callerVars, panicked, atCancel, queuedAtCancel>>

\* A call that reaches the database needs it open; a write waits for the write
\* transaction in progress.
Reaches(k) == k # EmptyKey

StoreSet(k, e) ==
  /\ ~crashed /\ (Reaches(k) => dbs[TheStore] = "open" /\ tx.pc = "none")
  /\ last' = Called("Set", k, e, Set(cache, k, e).err, ZeroEntry)
  /\ cache' = Set(cache, k, e).bucket
  /\ UNCHANGED <<StoreFrame, tx, crashed>>

StoreGet(k) ==
  /\ ~crashed /\ (Reaches(k) => dbs[TheStore] = "open")
  /\ last' = Called("Get", k, ZeroEntry, Get(cache, k).err, Get(cache, k).entry)
  /\ cache' = Get(cache, k).bucket
  /\ UNCHANGED <<StoreFrame, tx, crashed>>

StoreDelete(k) ==
  /\ ~crashed /\ (Reaches(k) => dbs[TheStore] = "open" /\ tx.pc = "none")
  /\ last' = Called("Delete", k, ZeroEntry, Delete(cache, k).err, ZeroEntry)
  /\ cache' = Delete(cache, k).bucket
  /\ UNCHANGED <<StoreFrame, tx, crashed>>

\* Clear: db.Update begins the write transaction, on a private copy of the file.
ClearBegin ==
  /\ ~crashed /\ dbs[TheStore] = "open" /\ tx.pc = "none"
  /\ tx' = [pc |-> "delete", bucket |-> cache, prev |-> cache]
  /\ UNCHANGED <<StoreFrame, last, cache, crashed>>

\* Clear, inside the transaction: tx.DeleteBucket.
ClearDeleteBucket ==
  /\ ~crashed /\ tx.pc = "delete"
  /\ \E o \in DbOutcomes : tx' = DeleteBucket(tx, o)
  /\ UNCHANGED <<StoreFrame, last, cache, crashed>>

\* Clear, inside the transaction: tx.CreateBucket.
ClearCreateBucket ==
  /\ ~crashed /\ tx.pc = "create"
  /\ \E o \in DbOutcomes : tx' = CreateBucket(tx, o)
  /\ UNCHANGED <<StoreFrame, last, cache, crashed>>

\* Clear: the function returned nil and db.Update commits, or the commit fails.
ClearCommit ==
  /\ ~crashed /\ tx.pc = "commit"
  /\ \E o \in DbOutcomes :
       /\ cache' = IF o = "nil" THEN Commit(cache, tx) ELSE Rollback(cache, tx)
       /\ last' = Called("Clear", EmptyKey, ZeroEntry, o, ZeroEntry)
  /\ tx' = NoTx
  /\ UNCHANGED <<StoreFrame, crashed>>

\* Clear: the function returned an error and db.Update rolls back and returns it.
ClearRollback ==
  /\ ~crashed /\ tx.pc = "failed"
  /\ cache' = Rollback(cache, tx)
  /\ last' = Called("Clear", EmptyKey, ZeroEntry, "failed", ZeroEntry)
  /\ tx' = NoTx
  /\ UNCHANGED <<StoreFrame, crashed>>

\* The answer of boltCache.Close on an instance in state d when bbolt's Close ends
\* with o: the error returned and the state afterwards.
CloseStoreReportsAgain(d, o) ==
  IF d = "open" THEN [err |-> o, db |-> "closed"] ELSE [err |-> "failed", db |-> d]

CloseStore(d, o) ==
  IF d = "open" THEN [err |-> o, db |-> "closed"] ELSE [err |-> "nil", db |-> d]

\* boltCache.Close() called on the store (bbolt's Close waits for open transactions).
StoreClose ==
  /\ ~crashed /\ tx.pc = "none"
  /\ \E o \in DbOutcomes :
       /\ last' = Called("Close", EmptyKey, ZeroEntry, CloseStore(dbs[TheStore], o).err, ZeroEntry)
       /\ dbs' = [dbs EXCEPT ![TheStore] = CloseStore(dbs[TheStore], o).db]
  /\ UNCHANGED <<cfg, fetcher, arch, urls, now, cap, tx, manager, mp, runE, ext, cache, poolVars, callerVars,
                 panicked, atCancel, queuedAtCancel>>

\* Get, Set, Delete or Clear reaching the database of a closed store: b.db is nil
\* and the call into it is a nil dereference.
StoreNilDb ==
  /\ ~crashed /\ dbs[TheStore] = "closed"
  /\ crashed' = TRUE
  /\ last' = Called("panic", EmptyKey, ZeroEntry, "none", ZeroEntry)
  /\ UNCHANGED <<StoreFrame, tx, cache>>

\* A cache file as an earlier run may have left it.
StoreInit ==
  /\ arch = "amd64"
  /\ fetcher = PlainFetcher
  /\ cache \in [Keys -> StoredRecords]
  /\ InitPool(DefaultCfg, RoundRobin(1), 1, 1)

StoreNext ==
  \/ \E k \in KeyChoices, e \in EntryChoices : StoreSet(k, e)
  \/ \E k \in KeyChoices : StoreGet(k)
  \/ \E k \in KeyChoices : StoreDelete(k)
  \/ ClearBegin
  \/ ClearDeleteBucket
  \/ ClearCreateBucket
  \/ ClearCommit
  \/ ClearRollback
  \/ StoreClose
  \/ StoreNilDb

StoreSpec == StoreInit /\ [][StoreNext]_vars

\* ------------------------------------------------- the cache manager
\* The instances that are open.
Live == {i \in Insts : dbs[i] = "open"}

\* The instance NewBoltCache would make next.
Unborn == {i \in Insts : dbs[i] = "unborn"}
NextInst == CHOOSE i \in Unborn : \A j \in Unborn : i <= j

\* What a call leaves alone besides the manager and the instances.
ManagerFrame == <<cfg, fetcher, arch, urls, now, cap, last, tx, runE, ext, cache, poolVars, callerVars, panicked,
                  atCancel, queuedAtCancel>>

\* GetCache under the write lock without the second look at m.cache.
getLockedNoRecheck(c, fresh, o) ==
  IF o = "nil" THEN [cache |-> fresh, ret |-> fresh, err |-> "nil", made |-> fresh]
  ELSE [cache |-> c, ret |-> NoInst, err |-> "failed", made |-> NoInst]

\* GetCache under the write lock: m.cache if it is set by now, else NewBoltCache(),
\* which ends with o; the field afterwards, the return values, the instance made.
getLocked(c, fresh, o) ==
  IF c # NoInst THEN [cache |-> c, ret |-> c, err |-> "nil", made |-> NoInst]
  ELSE IF o = "nil" THEN [cache |-> fresh, ret |-> fresh, err |-> "nil", made |-> fresh]
  ELSE [cache |-> NoInst, ret |-> NoInst, err |-> "failed", made |-> NoInst]

\* Close that forgets to reset the field.
closeLockedKeepsField(c, d, o) ==
  IF c = NoInst THEN [cache |-> NoInst, err |-> "nil", db |-> d]
  ELSE [cache |-> c, err |-> CloseStore(d, o).err, db |-> CloseStore(d, o).db]

\* CacheManager.Close under the lock, m.cache being c and that instance in state d.
closeLocked(c, d, o) ==
  IF c = NoInst THEN [cache |-> NoInst, err |-> "nil", db |-> d]
  ELSE [cache |-> NoInst, err |-> CloseStore(d, o).err, db |-> CloseStore(d, o).db]

\* CacheManager.Reset under the lock: an error of the store's Close is returned
\* before the field is reset.
resetLocked(c, d, o) ==
  IF c = NoInst THEN [cache |-> NoInst, err |-> "nil", db |-> d]
  ELSE IF CloseStore(d, o).err # "nil" THEN [cache |-> c, err |-> CloseStore(d, o).err, db |-> CloseStore(d, o).db]
  ELSE [cache |-> NoInst, err |-> "nil", db |-> CloseStore(d, o).db]

\* The state of instance c, none for the nil value.
DbOf(c) == IF c = NoInst THEN "unborn" ELSE dbs[c]

\* GetCache: m.mu.RLock().
GetCacheRLock(p) ==
  /\ mp[p].pc = "idle" /\ manager.writer = NoProc
  /\ manager' = [manager EXCEPT !.readers = @ \cup {p}]
  /\ mp' = [mp EXCEPT ![p] = [NoCall EXCEPT !.pc = "rlocked", !.op = "GetCache"]]
  /\ UNCHANGED <<ManagerFrame, dbs>>

\* GetCache under the read lock: return m.cache if it is set (the deferred RUnlock
\* runs), else RUnlock and go for the write lock.
GetCacheFast(p) ==
  /\ mp[p].pc = "rlocked"
  /\ manager' = [manager EXCEPT !.readers = @ \ {p}]
  /\ mp' = [mp EXCEPT ![p] =
              IF manager.cache # NoInst
                THEN [@ EXCEPT !.pc = "idle", !.ret = manager.cache, !.err = "nil",
                               !.was = dbs[manager.cache]]
                ELSE [@ EXCEPT !.pc = "wantlock"]]
  /\ UNCHANGED <<ManagerFrame, dbs>>

\* GetCache: m.mu.Lock().
GetCacheLock(p) ==
  /\ mp[p].pc = "wantlock" /\ manager.writer = NoProc /\ manager.readers = {}
  /\ manager' = [manager EXCEPT !.writer = p]
  /\ mp' = [mp EXCEPT ![p] = [@ EXCEPT !.pc = "locked"]]
  /\ UNCHANGED <<ManagerFrame, dbs>>

\* GetCache under the write lock, up to the return (the deferred Unlock runs).
GetCacheSlow(p) ==
  /\ mp[p].pc = "locked" /\ mp[p].op = "GetCache"
  /\ (manager.cache = NoInst => Unborn # {})
  /\ \E o \in DbOutcomes :
       LET r == getLocked(manager.cache, IF Unborn = {} THEN NoInst ELSE NextInst, o)
       IN /\ manager' = [manager EXCEPT !.cache = r.cache, !.writer = NoProc]
          /\ dbs' = IF r.made # NoInst THEN [dbs EXCEPT ![r.made] = "open"] ELSE dbs
          /\ mp' = [mp EXCEPT ![p] = [@ EXCEPT !.pc = "idle", !.ret = r.ret, !.err = r.err,
                                                !.made = r.made,
                                                !.was = IF r.ret = NoInst THEN "none"
                                                        ELSE IF r.made # NoInst THEN "open"
                                                        ELSE dbs[r.ret]]]
  /\ UNCHANGED ManagerFrame

\* Close: m.mu.Lock().
ManagerCloseLock(p) ==
  /\ mp[p].pc = "idle" /\ manager.writer = NoProc /\ manager.readers = {}
  /\ manager' = [manager EXCEPT !.writer = p]
  /\ mp' = [mp EXCEPT ![p] = [NoCall EXCEPT !.pc = "locked", !.op = "Close"]]
  /\ UNCHANGED <<ManagerFrame, dbs>>

\* Close under the lock, up to the return.
ManagerClose(p) ==
  /\ mp[p].pc = "locked" /\ mp[p].op = "Close"
  /\ \E o \in DbOutcomes :
       LET r == closeLocked(manager.cache, DbOf(manager.cache), o)
       IN /\ dbs' = IF manager.cache # NoInst THEN [dbs EXCEPT ![manager.cache] = r.db] ELSE dbs
          /\ mp' = [mp EXCEPT ![p] = [@ EXCEPT !.pc = "idle", !.err = r.err, !.ret = manager.cache,
                                                !.was = DbOf(manager.cache)]]
          /\ manager' = [manager EXCEPT !.cache = r.cache, !.writer = NoProc]
  /\ UNCHANGED ManagerFrame

ManagerInit ==
  /\ arch = "amd64"
  /\ fetcher = PlainFetcher
  /\ cache = MixedCache
  /\ InitRun(DefaultCfg, RoundRobin(1), 1, 1)
  /\ ext = NoExt
  /\ last = NoOp /\ tx = NoTx
  /\ dbs = [i \in Insts |-> "unborn"]
  /\ manager = NewManager
  /\ mp = [p \in Procs |-> NoCall]

ManagerNext ==
  \/ \E p \in Procs : GetCacheRLock(p)
  \/ \E p \in Procs : GetCacheFast(p)
  \/ \E p \in Procs : GetCacheLock(p)
  \/ \E p \in Procs : GetCacheSlow(p)
  \/ \E p \in Procs : ManagerCloseLock(p)
  \/ \E p \in Procs : ManagerClose(p)

ManagerSpec == ManagerInit /\ [][ManagerNext]_vars

\* Close() called by p on instance i, which some GetCache has handed out.
InstClose(p, i) ==
  /\ mp[p].pc = "idle" /\ dbs[i] # "unborn"
  /\ \E o \in DbOutcomes :
       /\ dbs' = [dbs EXCEPT ![i] = CloseStore(dbs[i], o).db]
       /\ mp' = [mp EXCEPT ![p] = [NoCall EXCEPT !.op = "StoreClose", !.ret = i, !.was = dbs[i],
                                                 !.err = CloseStore(dbs[i], o).err]]
  /\ UNCHANGED <<ManagerFrame, manager>>

\* The manager's callers, who may also close the instance they were given.
HandleNext ==
  \/ ManagerNext
  \/ \E p \in Procs, i \in Insts : InstClose(p, i)

HandleSpec == ManagerInit /\ [][HandleNext]_vars

\* Reset: m.mu.Lock().
ManagerResetLock(p) ==
  /\ mp[p].pc = "idle" /\ manager.writer = NoProc /\ manager.readers = {}
  /\ manager' = [manager EXCEPT !.writer = p]
  /\ mp' = [mp EXCEPT ![p] = [NoCall EXCEPT !.pc = "locked", !.op = "Reset"]]
  /\ UNCHANGED <<ManagerFrame, dbs>>

\* Reset under the lock, up to the return.
ManagerReset(p) ==
  /\ mp[p].pc = "locked" /\ mp[p].op = "Reset"
  /\ \E o \in DbOutcomes :
       LET r == resetLocked(manager.cache, DbOf(manager.cache), o)
       IN /\ dbs' = IF manager.cache # NoInst THEN [dbs EXCEPT ![manager.cache] = r.db] ELSE dbs
          /\ mp' = [mp EXCEPT ![p] = [@ EXCEPT !.pc = "idle", !.err = r.err, !.ret = manager.cache,
                                                !.was = DbOf(manager.cache)]]
          /\ manager' = [manager EXCEPT !.cache = r.cache, !.writer = NoProc]
  /\ UNCHANGED ManagerFrame

\* The manager with all three of its methods called.
ResetNext ==
  \/ \E p \in Procs : GetCacheRLock(p)
  \/ \E p \in Procs : GetCacheFast(p)
  \/ \E p \in Procs : GetCacheLock(p)
  \/ \E p \in Procs : GetCacheSlow(p)
  \/ \E p \in Procs : ManagerCloseLock(p)
  \/ \E p \in Procs : ManagerClose(p)
  \/ \E p \in Procs : ManagerResetLock(p)
  \/ \E p \in Procs : ManagerReset(p)

ResetSpec == ManagerInit /\ [][ResetNext]_vars

\* ------------------------------------------------- the orchestrator
\* processURLs / App.Run: New(Concurrency, Concurrency), Run, Submit for every URL in
\* turn, Close, and only then the range over Results(). No context is cancelled.
OrchSubmitCall == started /\ SubmitCall

\* pool.Close() comes after the loop over the URLs.
OrchClose == nextItem > Len(urls) /\ sub = NoSub /\ CloseJobs

\* for res := range pool.Results() comes after Close() has returned.
OrchRead == closePc = "returned" /\ Read

OrchReadEnd == closePc = "returned" /\ ReadEnd

\* The batches of n URLs: getURLs keeps the lines as they come, repeated ones included.
Batches(n) == [1..n -> Keys]

OrchInit ==
  /\ arch = "amd64"
  /\ fetcher = PlainFetcher
  /\ cache = MixedCache
  /\ \E c \in 1..MaxConcurrency, n \in 1..NumItems, retry \in 0..MaxRetry :
       \E u \in Batches(n) :
         InitPool([DefaultCfg EXCEPT !.Concurrency = c, !.Retry = retry], u, c, c)

OrchNext ==
  \/ Run
  \/ OrchSubmitCall
  \/ SubmitSend
  \/ OrchClose
  \/ CloseFinish
  \/ OrchRead
  \/ OrchReadEnd
  \/ \E w \in DOMAIN wk : WorkerDequeue(w)
  \/ \E w \in DOMAIN wk : WorkerJobsClosed(w)
  \/ \E w \in DOMAIN wk : WorkerCheckCache(w)
  \/ \E w \in DOMAIN wk : WorkerCleanup(w)
  \/ \E w \in DOMAIN wk : WorkerAttempt(w)
  \/ \E w \in DOMAIN wk : WorkerExhausted(w)
  \/ \E w \in DOMAIN wk : WorkerNilDeref(w)
  \/ \E w \in DOMAIN wk : WorkerSend(w)

OrchSpec == OrchInit /\ [][OrchNext]_vars

\* The same caller on a pool of any shape: fewer executors than items, any capacity.
LateReadInit ==
  /\ arch = "amd64"
  /\ fetcher = PlainFetcher
  /\ cache = MixedCache
  /\ \E n \in 2..(NumItems + 1), m \in 1..NumWorkers, b \in 1..(QueueCap + 1), retry \in 0..MaxRetry :
       /\ m < n
       /\ InitPool([DefaultCfg EXCEPT !.Concurrency = m, !.Retry = retry], RoundRobin(n), m, b)

LateReadSpec == LateReadInit /\ [][OrchNext]_vars

\* The same caller, whose context may be cancelled at any moment.
CancelLateNext ==
  \/ OrchNext
  \/ Cancel
  \/ SubmitCtxDone
  \/ \E w \in DOMAIN wk : WorkerCtxDone(w)

CancelLateSpec == LateReadInit /\ [][CancelLateNext]_vars

\* ------------------------------------------------- the root command
\* The settings a configuration file and the flags can give, good and bad.
RunEConfigs ==
  {[DefaultCfg EXCEPT !.Concurrency = c, !.Timeout = t, !.Retry = n, !.BaseDelay = b] :
     c \in -1..MaxConcurrency, t \in -1..1, n \in -1..MaxRetry, b \in -1..1}

\* What the steps of RunE leave alone besides the pool, the manager and the instances.
RunEFrame == <<cfg, fetcher, arch, urls, now, last, tx, mp, ext, cache, jobs, jobsClosed, results,
               resultsClosed, ctxDone, crashed, started, callerVars, panicked, atCancel, queuedAtCancel>>

\* RunE: manager.GetCache(); its error is returned.
RunEGetCache ==
  /\ ~crashed /\ runE = "start"
  /\ \E o \in DbOutcomes :
       LET r == getLocked(manager.cache, NextInst, o)
       IN /\ manager' = [manager EXCEPT !.cache = r.cache]
          /\ dbs' = IF r.made # NoInst THEN [dbs EXCEPT ![r.made] = "open"] ELSE dbs
          /\ runE' = IF r.err = "nil" THEN "setupConfig" ELSE "failed"
  /\ UNCHANGED <<RunEFrame, cap, wk>>

\* RunE: setupConfig (merge, then Validate) and getURLs. An error is returned, and
\* the deferred manager.Close() runs; else processURLs is entered and makes the pool,
\* New(cfg.Concurrency, cfg.Concurrency).
RunESetup ==
  /\ ~crashed /\ runE = "setupConfig"
  /\ IF Validate(cfg) = {}
       THEN /\ runE' = "processURLs"
            /\ cap' = cfg.Concurrency
            /\ wk' = [w \in 1..cfg.Concurrency |-> Idle]
            /\ UNCHANGED <<manager, dbs>>
       ELSE /\ runE' = "failed"
            /\ \E o \in DbOutcomes :
                 LET r == closeLocked(manager.cache, DbOf(manager.cache), o)
                 IN /\ dbs' = IF manager.cache # NoInst THEN [dbs EXCEPT ![manager.cache] = r.db] ELSE dbs
                    /\ manager' = [manager EXCEPT !.cache = r.cache]
            /\ UNCHANGED <<cap, wk>>
  /\ UNCHANGED RunEFrame

\* RunE: processURLs has read the last Result; return nil, and the deferred
\* manager.Close() runs.
RunEReturn ==
  /\ ~crashed /\ runE = "processURLs" /\ eos
  /\ runE' = "returned"
  /\ \E o \in DbOutcomes :
       LET r == closeLocked(manager.cache, DbOf(manager.cache), o)
       IN /\ dbs' = IF manager.cache # NoInst THEN [dbs EXCEPT ![manager.cache] = r.db] ELSE dbs
          /\ manager' = [manager EXCEPT !.cache = r.cache]
  /\ UNCHANGED <<RunEFrame, cap, wk>>

\* The pool of processURLs runs while RunE is inside it.
RunEProcess == runE = "processURLs" /\ OrchNext

\* The command starts: nothing is made yet, the settings are what the user gave.
RunEInit ==
  /\ arch = "amd64"
  /\ fetcher = PlainFetcher
  /\ cache = MixedCache
  /\ cfg \in RunEConfigs
  /\ \E n \in 1..NumItems : urls \in Batches(n)
  /\ now = 1
  /\ runE = "start"
  /\ ext = NoExt
  /\ cap = 0 /\ wk = <<>>
  /\ jobs = <<>> /\ jobsClosed = FALSE
  /\ results = <<>> /\ resultsClosed = FALSE
  /\ ctxDone = FALSE /\ crashed = FALSE /\ started = FALSE
  /\ sub = NoSub
  /\ subLog = [i \in 1..Len(urls) |-> NotSubmitted]
  /\ nextItem = 1
  /\ closePc = "open"
  /\ delivered = <<>> /\ eos = FALSE
  /\ panicked = {} /\ atCancel = {} /\ queuedAtCancel = {}
  /\ last = NoOp /\ tx = NoTx
  /\ dbs = [i \in Insts |-> "unborn"]
  /\ manager = NewManager
  /\ mp = [p \in Procs |-> NoCall]

RunENext ==
  \/ RunEGetCache
  \/ RunESetup
  \/ RunEProcess
  \/ RunEReturn

RunESpec == RunEInit /\ [][RunENext]_vars

\* ------------------------------------- the extraction step, called directly
\* Response bodies, as the elements of their documents: a page with a heading and two
\* anchors, one of them without href; a page of one paragraph; an empty page.
Page == <<[tag |-> <<"h1">>, text |-> <<Sp, "Hello", Sp>>, attrs |-> {}],
          [tag |-> <<"a">>, text |-> <<"Page1">>, attrs |-> {<< <<"href">>, <<"/page1">> >>}],
          [tag |-> <<"a">>, text |-> <<"Page2", Sp>>, attrs |-> {}]>>
Plain == <<[tag |-> <<"p">>, text |-> <<"hello">>, attrs |-> {}]>>
Bodies == {<<>>, Plain, Page}

\* The lists of at most n members of S.
Lists(S, n) == UNION {[1..k -> S] : k \in 0..n}

SelectorChoices == {<<"h1">>, <<"a">>, <<"a", At, "href">>, <<"a", At>>}
PatternChoices == {<<"hello">>, <<"kenobi">>, <<"(">>}
TextLists == {<<>>, << <<"hello", Sp, "world">>, <<"hello", Sp, "hello">>, <<"general", Sp, "kenobi">> >>}

\* What a call of the extraction step leaves alone.
ExtractFrame == <<cfg, fetcher, arch, urls, now, cap, storeVars, runE, cache, poolVars, callerVars,
                  panicked, atCancel, queuedAtCancel>>

\* applySelectors(body, selectors) is called and returns.
ExtractSelect ==
  /\ ext.selPc = "ready"
  /\ \E o \in ParseOutcomes :
       ext' = [ext EXCEPT !.selPc = "done", !.parsed = o,
                          !.sel = applySelectors(ext.body, ext.selectors, o)]
  /\ UNCHANGED ExtractFrame

\* applyRegexPatterns(texts, patterns) is called and returns.
ExtractFilter ==
  /\ ext.patPc = "ready"
  /\ ext' = [ext EXCEPT !.patPc = "done", !.matches = applyRegexPatterns(ext.texts, ext.patterns)]
  /\ UNCHANGED ExtractFrame

ExtractInit ==
  /\ arch = "amd64"
  /\ fetcher = PlainFetcher
  /\ cache = MixedCache
  /\ InitRun(DefaultCfg, RoundRobin(1), 1, 1)
  /\ last = NoOp /\ tx = NoTx
  /\ dbs = [i \in Insts |-> "unborn"]
  /\ manager = NewManager
  /\ mp = [p \in Procs |-> NoCall]
  /\ \E b \in Bodies, ss \in Lists(SelectorChoices, MaxList), ts \in TextLists,
        ps \in Lists(PatternChoices, MaxList) :
       ext = [NoExt EXCEPT !.selPc = "ready", !.patPc = "ready", !.body = b, !.selectors = ss,
                           !.texts = ts, !.patterns = ps]

ExtractNext ==
  \/ ExtractSelect
  \/ ExtractFilter

ExtractSpec == ExtractInit /\ [][ExtractNext]_vars

\* --------------------------------------------- properties of the pool
\* The Result of item i is in the output queue or has been read by the caller.
Published(i) ==
  \/ \E n \in 1..Len(results) : results[n].item = i
  \/ \E n \in 1..Len(delivered) : delivered[n].item = i

\* C3: once the context is cancelled no executor dequeues another Work Item: the
\* items in the input queue at that moment are never executed and never produce a Result.
C3_QueuedAtCancelNeverRun ==
  \A i \in queuedAtCancel : i \notin Held /\ ~Published(i)

\* C4: a Submit issued with its context already cancelled returns the cancellation
\* error and enqueues nothing, whatever room the input queue has.
C4_SubmitAfterCancelFails ==
  \A i \in DOMAIN subLog :
    subLog[i].cancelledAtCall /\ subLog[i].ret # "none" => subLog[i].ret = "cancelled"

\* C5: an item that an executor was running when the context was cancelled is not
\* lost: its Result is published, or an executor of the live process still holds it.
C5_InFlightIsPublished ==
  \A i \in atCancel : Published(i) \/ (i \in Held /\ ~crashed)

\* C6: a panic inside a Work Item is confined to that item: the process, with the
\* pool and its other executors, keeps running.
C6_PanicConfined ==
  panicked # {} => ~crashed

\* C7: a Submit issued after Close() has started returns an error: it neither
\* enqueues the item nor panics.
C7_SubmitAfterCloseFails ==
  \A i \in DOMAIN subLog :
    subLog[i].closedAtCall /\ subLog[i].ret # "none" => subLog[i].ret = "cancelled"

\* --------------------------------------- properties of the retry loop
\* A call of ScrapeWithRetry has returned its Result.
Returned(w) == wk[w].pc = "send"

\* C8: with max_attempts >= 1 and a Fetcher that fails every time, the retry loop
\* calls the Fetcher exactly max_attempts times and returns a failure Result whose
\* error carries the 'all attempts failed' marker around the error of the last call.
C8_ExactAttemptsLastError ==
  \A w \in DOMAIN wk :
    (Returned(w) /\ cfg.Retry >= 1 /\ fetcher \subseteq AlwaysFails) =>
       /\ wk[w].l.calls = cfg.Retry
       /\ Len(wk[w].l.hist) = cfg.Retry
       /\ ~wk[w].res.ok
       /\ wk[w].res.err = AllFailed(wk[w].l.hist[cfg.Retry])

\* An always-failing job with several attempts has returned.
C8_Witness ==
  \E w \in DOMAIN wk :
    /\ Returned(w) /\ cfg.Retry >= 3 /\ fetcher \subseteq AlwaysFails
    /\ wk[w].l.hist[1].kind # wk[w].l.hist[cfg.Retry].kind

\* C9: a configuration whose max_attempts is <= 0 is rejected before any job runs:
\* the retry loop is never entered with such a value.
C9_NoLoopWithoutAttempts ==
  \A w \in DOMAIN wk : wk[w].pc = "fetch" => cfg.Retry >= 1

\* The delay the backoff is to give after failed attempt k: base * 2^(k-1), at most
\* max(30s, 16 * base), in exact arithmetic.
BackoffBound(base, k) ==
  LET raw == base * Pow(Multiplier, k - 1)
      top == IF MaxDelayFactor * base > ThirtySeconds THEN MaxDelayFactor * base ELSE ThirtySeconds
  IN IF raw < top THEN raw ELSE top

\* C10: the delay slept after failed attempt k is BackoffBound when jitter is off and
\* lies between 0 and BackoffBound when jitter is on: never negative, never above the cap.
C10_DelayWithinCap ==
  \A w \in DOMAIN wk :
    wk[w].l.sleeps > 0 =>
      LET d == wk[w].l.delay
          b == BackoffBound(cfg.BaseDelay, wk[w].l.after)
      IN IF cfg.Jitter THEN 0 <= d /\ d <= b ELSE d = b

\* ------------------------------------- properties of the orchestrator
\* Every submitted item has exactly one Result among those the caller has read.
OnePerItem ==
  /\ Len(delivered) = Len(urls)
  /\ \A i \in 1..Len(urls) : Cardinality({n \in 1..Len(delivered) : delivered[n].item = i}) = 1

\* C1: a batch run by the orchestrator delivers exactly one Result per submitted key:
\* short of a process-ending panic, the run never comes to a stop before every item's
\* Result has been read and the stream has ended.
C1_EveryKeyDelivered ==
  ~crashed => (ENABLED OrchNext \/ (eos /\ OnePerItem))

\* C2: with fewer executors than items and any capacity, Close() returns whenever the
\* caller starts to read: short of a process-ending panic, a Close() that has been
\* called is never left waiting with no step of the pool possible.
C2_CloseReturns ==
  (closePc = "waiting" /\ ~crashed) => ENABLED OrchNext

C20_DeleteRemoves ==
  (last.op = "Delete" /\ last.key # EmptyKey) =>
     /\ last.err = "nil"
     /\ Get(cache, last.key).err = "not found"
     /\ \A k \in Keys \ {last.key} : cache[k] = last.prev[k]
     /\ Delete(cache, last.key) = [err |-> "nil", bucket |-> cache]

\* A Delete of a key that held nothing, next to a key that holds something.
C20_Witness ==
  /\ last.op = "Delete" /\ last.key # EmptyKey
  /\ ~last.prev[last.key].present
  /\ \E k \in Keys \ {last.key} : cache[k].present

\* ------------------------------- properties of the cache-aware job
\* The job of executor w has consulted the cache.
Looked(w) == wk[w].verdict \notin {"none", "skipped"}

\* The entry the cache check of executor w read, as a Result payload.
SeenAsValue(w) ==
  [type |-> "CacheEntry", bytes |-> wk[w].seen.entry.value, exp |-> wk[w].seen.entry.exp]

\* C11: when the cache check reads an entry whose expires_at is still ahead and
\* force-refresh is off, the job's Result is that entry and the Fetcher is not called.
C11_ValidEntryIsTheResult ==
  \A w \in DOMAIN wk :
    (Looked(w) /\ ~cfg.Force /\ wk[w].seen.err = "nil" /\ wk[w].at < wk[w].seen.entry.exp) =>
       /\ wk[w].pc \in {"send", "none"}
       /\ wk[w].res.ok /\ wk[w].res.cached
       /\ wk[w].res.value = SeenAsValue(w)
       /\ wk[w].l.calls = 0 /\ wk[w].seqs = 0

\* A job has returned the valid entry it found, with its payload.
C11_Witness ==
  \E w \in DOMAIN wk :
    /\ Looked(w) /\ ~cfg.Force /\ wk[w].seen.err = "nil" /\ wk[w].at < wk[w].seen.entry.exp
    /\ wk[w].pc = "none" /\ Len(delivered) > 0
    /\ delivered[Len(delivered)].value.bytes = <<7>>

\* C12: when the cache check reads an entry whose expires_at has passed and
\* force-refresh is off, the read deletes the entry from the store and the job runs
\* the retry-wrapped fetch sequence once, not zero times and not twice.
C12_ExpiredEntryDeletedOneFetch ==
  \A w \in DOMAIN wk :
    (Looked(w) /\ ~cfg.Force /\ wk[w].seen.err = "nil" /\ wk[w].at > wk[w].seen.entry.exp) =>
       /\ wk[w].pc \in {"cleanup", "fetch", "send", "none"}
       /\ wk[w].seqs = IF wk[w].pc = "cleanup" THEN 0 ELSE 1
       /\ ~wk[w].res.cached
       /\ wk[w].pc = "fetch" => ~cache[KeyOf(wk[w].item)].present

\* A job that found an expired entry has fetched and returned; the entry is gone.
C12_Witness ==
  \E w \in DOMAIN wk :
    /\ Looked(w) /\ ~cfg.Force /\ wk[w].seen.err = "nil" /\ wk[w].at > wk[w].seen.entry.exp
    /\ wk[w].seen.entry.value = <<8>>
    /\ wk[w].pc = "none" /\ wk[w].res.ok /\ wk[w].l.calls = 1
    /\ cache[KeyOf(wk[w].item)] = NoEntry

\* C13: once a fetch for a key has succeeded with a non-empty payload, the store
\* holds an entry for the key with that payload and an expires_at of the write time
\* (between the cache check and now) plus the configured TTL.
C13_SuccessfulFetchIsStored ==
  \A w \in DOMAIN wk :
    (wk[w].pc \in {"send", "none"} /\ wk[w].res.ok /\ ~wk[w].res.cached
       /\ Len(wk[w].res.value.bytes) > 0) =>
       LET rec == cache[KeyOf(wk[w].item)]
       IN /\ rec.present /\ ~rec.bad
          /\ rec.value = wk[w].res.value.bytes
          /\ rec.exp >= wk[w].at + cfg.Expiration
          /\ rec.exp <= now + cfg.Expiration

\* C14: the cache check takes an entry read at time now as a hit exactly when
\* now < expires_at (so not at now = expires_at); an entry that is not a hit is
\* treated as absent and removed by the read.
C14_HitIffBeforeExpiry ==
  \A w \in DOMAIN wk :
    (Looked(w) /\ wk[w].seen.err = "nil") =>
       /\ wk[w].verdict = "hit" <=> wk[w].at < wk[w].seen.entry.exp
       /\ (wk[w].verdict # "hit" /\ wk[w].pc = "fetch") => ~cache[KeyOf(wk[w].item)].present

\* The Result executor w holds is the one its fetch sequence produced.
FetchResult(w) ==
  \/ /\ wk[w].res.ok /\ wk[w].res.err = NoErr
     /\ wk[w].res.value = Scraped(wk[w].item)
     /\ wk[w].l.done
  \/ /\ ~wk[w].res.ok /\ wk[w].res.value = NoValue
     /\ wk[w].res.err = AllFailed(wk[w].l.lastErr)
     /\ wk[w].res.err.kind \in ErrKinds

\* C17: when the cache lookup returns an error other than NotFound (here: the decode
\* error of a malformed record), the job runs the fetch sequence once, from its start,
\* as for a miss, and its Result is the fetch's Result, never the cache error.
C17_LookupErrorFailsOpen ==
  \A w \in DOMAIN wk :
    (Looked(w) /\ wk[w].seen.err \notin {"nil", "not found"}) =>
       /\ wk[w].verdict = "error"
       /\ wk[w].pc \in {"fetch", "send", "none"}
       /\ wk[w].seqs = 1
       /\ ~wk[w].res.cached
       /\ (wk[w].pc = "fetch" /\ wk[w].l.calls = 0) => wk[w].l = RetryStart
       /\ wk[w].pc \in {"send", "none"} => FetchResult(w)

\* Jobs whose lookup met a malformed record have returned a fetched Result.
C17_Witness ==
  \E w \in DOMAIN wk :
    /\ Looked(w) /\ wk[w].seen.err = "decode"
    /\ wk[w].pc = "none" /\ wk[w].res.ok /\ ~wk[w].res.cached
    /\ cache[KeyOf(wk[w].item)] = Malformed

\* ------------------------- properties of the orchestrator and the cache
\* The store holds for item i's key a record that decodes and has not expired.
ValidInStore(i) ==
  LET g == Get(cache, KeyOf(i)) IN g.err = "nil" /\ now < g.entry.exp

C16_OneFetchPerKey ==
  \A w1, w2 \in DOMAIN wk :
    (w1 # w2 /\ wk[w1].pc = "fetch" /\ wk[w2].pc = "fetch") =>
       KeyOf(wk[w1].item) # KeyOf(wk[w2].item)

\* ------------------------------ further properties of the Cache Store
\* C22: Get(k) never changes the store: whatever the key and whatever the outcome
\* (an entry, NotFound, an error), the stored map after Get is the map before it.
C22_GetLeavesStore ==
  last.op = "Get" => cache = last.prev

\* Gets of every outcome have run on a store that holds something.
C22_Witness ==
  /\ last.op = "Get" /\ last.err = "decode"
  /\ \E k \in Keys : cache[k].present /\ ~cache[k].bad

\* C21: Clear is all or nothing: after a Clear that succeeded Get is NotFound for
\* every key; after a Clear that failed the store is what it was; and while the Clear
\* is under way the store a Get reads is still the whole store as it was before.
C21_ClearAllOrNothing ==
  /\ (last.op = "Clear" /\ last.err = "nil") => \A k \in Keys : Get(cache, k).err = "not found"
  /\ (last.op = "Clear" /\ last.err # "nil") => cache = last.prev
  /\ tx.pc # "none" => cache = tx.prev
  /\ (last.op = "Get" /\ tx.pc # "none") => last.err = Get(tx.prev, last.key).err

\* A Clear has succeeded on a store that held an entry under every key.
C21_Witness ==
  /\ last.op = "Clear" /\ last.err = "nil"
  /\ \A k \in Keys : last.prev[k].present
  /\ \E k \in Keys : ~last.prev[k].bad

\* ------------------------------------ properties of the cache manager
\* Caller p's latest call was a GetCache that returned an instance.
GotCache(p) == mp[p].pc = "idle" /\ mp[p].op = "GetCache" /\ mp[p].err = "nil"

\* C23: under any interleaving of GetCache and Close on the manager at most one
\* store instance is open, and it is the one the manager holds; GetCache calls that
\* meet no instance make one between them and return it, open; after a Close the
\* field is empty, so the next GetCache makes a new instance.
C23_OneLiveInstance ==
  /\ Cardinality(Live) <= 1
  /\ Live \subseteq {manager.cache}
  /\ manager.cache # NoInst => dbs[manager.cache] = "open"
  /\ \A p \in Procs :
       GotCache(p) => /\ mp[p].ret \in Insts /\ mp[p].was = "open"
                      /\ mp[p].made \in {NoInst, mp[p].ret}
  /\ \A p, q \in Procs :
       (GotCache(p) /\ GotCache(q) /\ mp[p].ret \in Live /\ mp[q].ret \in Live) =>
          mp[p].ret = mp[q].ret
  /\ \A p \in Procs :
       (mp[p].pc = "idle" /\ mp[p].op = "Close" /\ mp[p].ret # NoInst) =>
          dbs[mp[p].ret] = "closed" /\ manager.cache # mp[p].ret

\* Two callers that met an empty manager hold the same open instance, the second
\* one made after a Close.
C23_Witness ==
  /\ \A p \in Procs : GotCache(p) /\ mp[p].ret = 2
  /\ \E p \in Procs : mp[p].made = 2
  /\ \E p \in Procs : mp[p].made = NoInst
  /\ dbs[1] = "closed" /\ Live = {2}

\* C24: Close is idempotent. A Close of a store instance that is already closed
\* returns no error and changes nothing; a Close of the manager that finds no
\* instance, or one already closed, returns no error and leaves every instance and
\* the stored data as they are, the manager's field being empty afterwards.
C24_CloseIdempotent ==
  [][\A p \in Procs :
       /\ (mp[p].pc = "idle" /\ mp'[p] # mp[p] /\ mp'[p].op = "StoreClose" /\ mp'[p].was = "closed") =>
             /\ mp'[p].err = "nil"
             /\ dbs' = dbs /\ manager' = manager /\ cache' = cache
       /\ (mp[p].pc = "locked" /\ mp[p].op = "Close" /\ mp'[p].pc = "idle"
             /\ DbOf(manager.cache) # "open") =>
             /\ mp'[p].err = "nil"
             /\ dbs' = dbs /\ cache' = cache
             /\ manager'.cache = NoInst]_vars

\* An instance the manager had closed has been closed again by its holder, and the
\* manager has been closed a second time.
C24_Witness ==
  \E p, q \in Procs :
    /\ p # q
    /\ mp[p].pc = "idle" /\ mp[p].op = "StoreClose" /\ mp[p].was = "closed" /\ mp[p].err = "nil"
    /\ mp[q].pc = "idle" /\ mp[q].op = "Close" /\ mp[q].ret = NoInst /\ mp[q].err = "nil"
    /\ Live = {}

\* ------------------------------------ further properties of the pool
\* C25: Close() closes the input queue, waits until every executor has returned and
\* only then closes the output queue: when the output queue is closed the input queue
\* is closed and every executor has returned (none is left to publish), and, without
\* cancellation, every item accepted before is published by then.
C25_CloseOrder ==
  /\ closePc = "waiting" => jobsClosed /\ ~resultsClosed
  /\ resultsClosed =>
       /\ jobsClosed /\ closePc = "returned"
       /\ \A w \in DOMAIN wk : wk[w].pc = "exited"
       /\ ~ctxDone => \A i \in DOMAIN subLog : subLog[i].ret = "nil" => Published(i)

\* Close() has returned on a pool that ran every item of the batch.
C25_Witness ==
  /\ resultsClosed /\ ~ctxDone /\ ~crashed
  /\ \A i \in DOMAIN subLog : subLog[i].ret = "nil" /\ Published(i)
  /\ Len(delivered) > 0 /\ Len(results) > 0

\* The items Submit has accepted, the executors that hold an item, and how often
\* item i occurs among the Results published so far.
Accepted == {i \in DOMAIN subLog : subLog[i].ret = "nil"}
Busy == {w \in DOMAIN wk : wk[w].pc \in {"cache", "cleanup", "fetch", "send"}}
TimesPublished(i) ==
  Cardinality({n \in 1..Len(results) : results[n].item = i})
    + Cardinality({n \in 1..Len(delivered) : delivered[n].item = i})

\* C26: the pool conserves work: the accepted items are those in the input queue,
\* those an executor holds and those with a published Result, each counted once; no
\* item has two Results and no Result belongs to an item that was not dequeued.
C26_WorkConserved ==
  /\ Cardinality(Accepted) = Len(jobs) + Cardinality(Busy) + Len(results) + Len(delivered)
  /\ \A i \in DOMAIN subLog :
       /\ TimesPublished(i) <= 1
       /\ Published(i) =>
            /\ i \in Accepted /\ i \notin Held
            /\ \A n \in 1..Len(jobs) : jobs[n] # i

\* Every item of the batch is accepted, an executor holds one and a Result is out.
C26_Witness ==
  /\ Cardinality(Accepted) = NumItems
  /\ Cardinality(Busy) >= 1
  /\ Len(results) + Len(delivered) >= 1
  /\ ~crashed

\* C27: after the context is cancelled every executor returns, a busy one after
\* publishing its Result, so a Close() that follows returns: short of a process-ending
\* panic, a Close() called on a cancelled pool is never left waiting with no step of
\* the pool possible.
C27_CancelledPoolWindsDown ==
  (ctxDone /\ closePc = "waiting" /\ ~crashed) => ENABLED CancelLateNext

\* C30: Run starts exactly worker_count executors: at most worker_count items are
\* being executed at the same time, and an item is held by one executor only, each
\* executor holding one item at a time.
C30_ExactlyWorkerCount ==
  started =>
    /\ DOMAIN wk = 1..cfg.Concurrency
    /\ Cardinality(Busy) <= cfg.Concurrency
    /\ Cardinality(Held) = Cardinality(Busy)
    /\ \A w \in DOMAIN wk : (w \in Busy) <=> (wk[w].item # NoItem)

\* Every executor of a pool of several holds an item.
C30_Witness ==
  /\ started /\ cfg.Concurrency = MaxConcurrency
  /\ Busy = DOMAIN wk
  /\ Cardinality(Held) = MaxConcurrency

\* The Results in the order of their publication: those read, then those waiting.
Stream == delivered \o results

\* C28: Results reach the caller in the order of their publication, whatever the
\* order of submission: a Result is only ever added at the end of the stream, and the
\* caller reads the stream from its front.
C28_CompletionOrder ==
  [][/\ Stream' = Stream \/ \E w \in DOMAIN wk : Stream' = Append(Stream, wk[w].res)
     /\ Len(delivered') >= Len(delivered)
     /\ Len(delivered') > Len(delivered) => delivered' = Append(delivered, Stream[Len(delivered) + 1])]_vars

\* The caller has read the second item's Result before the first item's, both having
\* waited in the output queue.
C28_Witness ==
  /\ Len(delivered) = 2 /\ eos
  /\ delivered[1].item = 2 /\ delivered[2].item = 1
  /\ cap >= 2

\* C29: the pool publishes each job's Result unchanged: what an executor sends is the
\* Result its job returned, what the caller reads is what was sent, and after
\* sending a Result, an error as well, the executor is back at its select.
C29_ResultsUnchanged ==
  [][/\ \A w \in DOMAIN wk :
          (wk[w].pc = "send" /\ wk'[w] # wk[w]) =>
             /\ results' = Append(results, wk[w].res)
             /\ wk'[w].pc = "select"
             /\ crashed' = crashed
     /\ delivered' # delivered =>
          /\ delivered' = Append(delivered, Head(results))
          /\ results' = Tail(results)]_vars

\* The caller has read a job's error and, after it, another job's data.
C29_Witness ==
  \E n \in 1..Len(delivered) :
    /\ n < Len(delivered)
    /\ ~delivered[n].ok /\ delivered[n].err.marker = "all attempts failed"
    /\ delivered[n + 1].ok /\ delivered[n + 1].value.type # "nil"

\* C31: New(worker_count, queue_capacity) gives both queues the capacity
\* queue_capacity, whatever worker_count is: neither queue ever holds more than
\* queue_capacity elements, and a Submit that finds the input queue full does not
\* enqueue: it waits.
C31_QueuesBounded ==
  /\ cap = QueueCap
  /\ Len(jobs) <= QueueCap
  /\ Len(results) <= QueueCap
  /\ (sub # NoSub /\ Len(jobs) >= QueueCap) => ~ENABLED SubmitSend
  /\ \A w \in DOMAIN wk : (wk[w].pc = "send" /\ Len(results) >= QueueCap) => ~ENABLED WorkerSend(w)

\* A Submit waits on the full input queue of a running pool whose capacity is not its
\* number of executors.
C31_Witness ==
  /\ started /\ ~ctxDone /\ ~jobsClosed /\ ~crashed
  /\ sub # NoSub /\ Len(jobs) = cap
  /\ cap # Cardinality(DOMAIN wk)

\* ----------------------------------- properties of the root command
\* The settings the claim names as invalid.
Rejected(c) == c.Concurrency <= 0 \/ c.Timeout <= 0 \/ c.Retry < 0 \/ c.BaseDelay <= 0

\* C32: a configuration with concurrency <= 0, timeout <= 0, a negative retry count
\* or base delay <= 0 is reported as an error before any work starts: the run never
\* gets past its setup, it ends with the error, no pool is made or started, no Work
\* Item is submitted and no fetch is attempted.
C32_InvalidConfigNoWork ==
  Rejected(cfg) =>
    /\ runE \in {"start", "setupConfig", "failed"}
    /\ ~started /\ DOMAIN wk = {} /\ cap = 0
    /\ nextItem = 1 /\ sub = NoSub /\ jobs = <<>>
    /\ \A i \in DOMAIN subLog : subLog[i] = NotSubmitted
    /\ results = <<>> /\ delivered = <<>>
    /\ cache = MixedCache
    /\ ~crashed

\* A run whose only fault is a negative retry count has ended with the error, its
\* store opened and closed again.
C32_Witness ==
  /\ runE = "failed"
  /\ Validate(cfg) = {"retry count cannot be negative"}
  /\ dbs[TheStore] = "closed"
  /\ Len(urls) = NumItems

\* ------------------------------- properties of the extraction step
\* The members of a list, and the lists of a list of lists joined in order.
Range(q) == {q[n] : n \in 1..Len(q)}
RECURSIVE Flat(_)
Flat(qs) == IF qs = <<>> THEN <<>> ELSE Head(qs) \o Flat(Tail(qs))

\* The matches of a selector in a document, in encounter order: for each element of
\* the selector's kind the named attribute, or the trimmed text when none is named.
SelectorMatches(doc, selector) ==
  LET named == \E i \in 1..Len(selector) : selector[i] = At
      cut == IF named THEN CHOOSE i \in 1..Len(selector) :
                             selector[i] = At /\ \A j \in 1..(i - 1) : selector[j] # At
             ELSE Len(selector) + 1
      css == SubSeq(selector, 1, cut - 1)
      attr == SubSeq(selector, cut + 1, Len(selector))
      hits == SelectSeq(doc, LAMBDA el : el.tag = css)
  IN [n \in 1..Len(hits) |->
        IF attr = EmptyStr THEN TrimSpace(hits[n].text)
        ELSE IF \E a \in hits[n].attrs : a[1] = attr
          THEN (CHOOSE a \in hits[n].attrs : a[1] = attr)[2] ELSE EmptyStr]

\* The selector pass has returned what the claim describes for its inputs.
SelectorsMapped ==
  /\ ~ext.sel.nil
  /\ DOMAIN ext.sel.results = Range(ext.selectors)
  /\ \A sl \in DOMAIN ext.sel.results : ext.sel.results[sl] = SelectorMatches(ext.body, sl)
  /\ ext.sel.texts = Flat([n \in 1..Len(ext.selectors) |-> ext.sel.results[ext.selectors[n]]])

\* The pattern pass has returned what the claim describes for its inputs.
PatternsMapped ==
  /\ DOMAIN ext.matches = {pt \in Range(ext.patterns) : Compiles(pt)}
  /\ \A pt \in DOMAIN ext.matches :
       ext.matches[pt] = Flat([n \in 1..Len(ext.texts) |-> FindAllString(pt, ext.texts[n])])

C34_StopsAtFirstSuccess ==
  \A w \in DOMAIN wk :
    (wk[w].pc \in {"fetch", "send"} /\ cfg.Retry >= 1) =>
      LET l == wk[w].l
      IN /\ ~l.done =>
              /\ l.calls = Len(l.hist) /\ l.calls = l.attempt - 1
              /\ l.sleeps = IF l.calls < cfg.Retry THEN l.calls ELSE cfg.Retry - 1
         /\ l.done =>
              /\ 1 <= l.attempt /\ l.attempt <= cfg.Retry
              /\ l.calls = l.attempt
              /\ Len(l.hist) = l.attempt - 1
              /\ l.sleeps = l.attempt - 1
              /\ wk[w].pc = "send"
              /\ wk[w].res = [item |-> wk[w].item, ok |-> TRUE, cached |-> FALSE, err |-> NoErr,
                              value |-> Scraped(wk[w].item)]
         /\ l.sleeps > 0 => l.after = l.sleeps
         /\ \A n \in 1..Len(l.hist) : l.hist[n].at = n

\* A loop with attempts to spare has returned the success of its third attempt.
C34_Witness ==
  \E w \in DOMAIN wk :
    /\ wk[w].pc = "send" /\ wk[w].l.done
    /\ wk[w].l.calls = 3 /\ wk[w].l.sleeps = 2
    /\ cfg.Retry >= 5

\* C36: the retry loop treats every failed attempt alike: whatever the kind of its
\* error, a failed attempt uses up exactly one of the max_attempts, its error becomes
\* the last error, and unless it was the last attempt one backoff sleep and another
\* attempt follow; but for the error kept, the loop goes on as it does after a timeout.
C36_EveryFailureRetried ==
  [][\A w \in DOMAIN wk :
       (wk[w].pc = "fetch" /\ wk'[w].l.calls = wk[w].l.calls + 1 /\ ~wk'[w].l.done) =>
          LET l == wk[w].l
              l2 == wk'[w].l
              asTimeout == PerformIter(l, cfg, arch, [ok |-> FALSE, err |-> "timeout"], 0)
          IN /\ l2.attempt = l.attempt + 1
             /\ l2.hist = Append(l.hist, l2.lastErr)
             /\ l2.lastErr.kind \in {o.err : o \in fetcher} \ {"nil"}
             /\ wk'[w].pc = "fetch"
             /\ l.attempt < cfg.Retry =>
                  /\ l2.sleeps = l.sleeps + 1 /\ l2.after = l.attempt
                  /\ l2.attempt <= cfg.Retry /\ ~crashed' /\ fetcher' # {}
             /\ l.attempt >= cfg.Retry => l2.sleeps = l.sleeps
             /\ [l2 EXCEPT !.lastErr = NoErr, !.hist = <<>>] = [asTimeout EXCEPT !.lastErr = NoErr, !.hist = <<>>]]_vars

\* A loop has used up its attempts on errors of different kinds, a timeout, a status
\* and a body-processing error among them, sleeping after all but the last.
C36_Witness ==
  \E w \in DOMAIN wk :
    /\ wk[w].pc = "send" /\ ~wk[w].res.ok
    /\ cfg.Retry = MaxTries /\ wk[w].l.calls = MaxTries /\ wk[w].l.sleeps = MaxTries - 1
    /\ {"timeout", "status", "body"} \subseteq {wk[w].l.hist[n].kind : n \in 1..Len(wk[w].l.hist)}

\* --------------------- processURLs on the package-level ScrapeWithRetry
\* The payload of a successful scrape of the package-level scraper: the Content-Type
\* header, a string.
ContentType(i) == [type |-> "string", bytes |-> <<i>>, exp |-> 0]

\* One pass of the retry loop of the package-level performScrapeWithRetries; on success
\* ScrapeWithRetry hands the bytes of the string to storeCacheResult and returns.
ScrapeAttempt(w) ==
  /\ ~crashed /\ wk[w].pc = "fetch" /\ wk[w].l.attempt <= cfg.Retry
  /\ \E o \in fetcher, r \in JitterDraws(cfg.Jitter) :
       LET l2 == PerformIter(wk[w].l, cfg, arch, o, r)
           v == ContentType(wk[w].item)
           data == CacheableBytes(v)
       IN /\ wk' = [wk EXCEPT ![w] =
                      IF l2.done
                        THEN [@ EXCEPT !.pc = "send", !.l = l2,
                                       !.ops = Append(@, Op("Set", KeyOf(wk[w].item))),
                                       !.res = [item |-> wk[w].item, ok |-> TRUE, cached |-> FALSE,
                                                err |-> NoErr, value |-> v]]
                        ELSE [@ EXCEPT !.l = l2]]
          /\ cache' = IF l2.done
                        THEN storeCacheResult(cache, KeyOf(wk[w].item), data, now, cfg.Expiration)
                        ELSE cache
  /\ UNCHANGED <<envVars, jobs, jobsClosed, results, resultsClosed, ctxDone, crashed,
                 started, callerVars, panicked, atCancel, queuedAtCancel>>

\* processURLs: the caller of App.Run, its jobs the package-level ScrapeWithRetry
\* (which has no force-refresh; the cache check and the cleanup are the same code).
ProcessURLsInit == OrchInit

ProcessURLsNext ==
  \/ Run
  \/ OrchSubmitCall
  \/ SubmitSend
  \/ OrchClose
  \/ CloseFinish
  \/ OrchRead
  \/ OrchReadEnd
  \/ \E w \in DOMAIN wk : WorkerDequeue(w)
  \/ \E w \in DOMAIN wk : WorkerJobsClosed(w)
  \/ \E w \in DOMAIN wk : WorkerCheckCache(w)
  \/ \E w \in DOMAIN wk : WorkerCleanup(w)
  \/ \E w \in DOMAIN wk : ScrapeAttempt(w)
  \/ \E w \in DOMAIN wk : WorkerExhausted(w)
  \/ \E w \in DOMAIN wk : WorkerNilDeref(w)
  \/ \E w \in DOMAIN wk : WorkerSend(w)

ProcessURLsSpec == ProcessURLsInit /\ [][ProcessURLsNext]_vars

\* ------- successive calls of the package-level ScrapeWithRetry, called directly
\* The store holds any records; the TTL is zero or one tick; one call more than the
\* batches of the other runs, so that an entry can be written, read and read again.
ScrapeCallsInit ==
  /\ arch = "amd64"
  /\ fetcher = PlainFetcher
  /\ cache \in [Keys -> StoredRecords]
  /\ \E d \in 0..1, retry \in 0..MaxRetry, u \in [1..(NumItems + 1) -> Keys] :
       InitPool([DefaultCfg EXCEPT !.Expiration = d, !.Retry = retry], u, 1, 1)

ScrapeCallsNext ==
  \/ CacheCall
  \/ CacheReturn
  \/ Tick
  \/ \E w \in DOMAIN wk : WorkerCheckCache(w)
  \/ \E w \in DOMAIN wk : WorkerCleanup(w)
  \/ \E w \in DOMAIN wk : ScrapeAttempt(w)
  \/ \E w \in DOMAIN wk : WorkerExhausted(w)
  \/ \E w \in DOMAIN wk : WorkerNilDeref(w)

ScrapeCallsSpec == ScrapeCallsInit /\ [][ScrapeCallsNext]_vars

\* --------------------- further properties of the cache-aware job
\* C35: with force-refresh set a job does not read the cache: it issues no Get and no
\* Delete, its Result is never a stored entry, its fetch sequence always runs, once,
\* and the only cache operation it may issue is the Set of its successful fetch.
C35_ForceSkipsCache ==
  \A w \in DOMAIN wk :
    (cfg.Force /\ wk[w].item # NoItem /\ wk[w].pc # "cache") =>
       /\ \A n \in 1..Len(wk[w].ops) : wk[w].ops[n].op = "Set"
       /\ Len(wk[w].ops) <= 1
       /\ wk[w].ops # <<>> => wk[w].l.done /\ wk[w].ops[1].key = KeyOf(wk[w].item)
       /\ ~Looked(w) /\ wk[w].seen = NotLooked
       /\ ~wk[w].res.cached /\ wk[w].res.value.type # "CacheEntry"
       /\ wk[w].pc \in {"fetch", "send", "none"} /\ wk[w].seqs = 1
       /\ wk[w].pc \in {"send", "none"} => FetchResult(w) /\ wk[w].l.calls >= 1

\* Under force-refresh two jobs have returned fetched Results, for a key whose entry
\* is valid and for a key whose entry has expired; both entries are still there.
C35_Witness ==
  /\ cfg.Force /\ Len(delivered) = 2
  /\ \A n \in 1..2 : delivered[n].ok /\ ~delivered[n].cached
  /\ cache[KeyOf(delivered[1].item)] = Fresh /\ now < Fresh.exp
  /\ cache[KeyOf(delivered[2].item)] = Stale

\* C37: the cleanup of an expired entry never destroys a fresh one: whenever a job's
\* cleanup removes the entry of its key, that entry is expired at the time (it is not
\* one that another executor's successful fetch has written since the job's read).
C37_CleanupSparesFreshEntry ==
  [][\A w \in DOMAIN wk :
       (wk[w].pc = "cleanup" /\ wk'[w].pc = "fetch") =>
          LET k == KeyOf(wk[w].item)
          IN (cache[k].present /\ ~cache'[k].present) => now > cache[k].exp]_vars

\* C38: a cache hit performs no write. The step in which a job's cache check answers
\* with the stored entry leaves the store as it is, happens no later than the entry's
\* expires_at, and returns the entry as stored; and an entry appears or changes only
\* by the Set of a successful fetch, with expires_at = now + TTL. So an entry written
\* at time t with TTL d keeps expires_at = t + d and is never a hit later than t + d.
C38_HitWritesNothing ==
  [][/\ \A w \in DOMAIN wk :
          (wk[w].pc = "cache" /\ wk'[w].pc = "send") =>
             LET k == KeyOf(wk[w].item)
             IN /\ cache' = cache
                /\ cache[k].present /\ now <= cache[k].exp
                /\ wk'[w].res.cached
                /\ wk'[w].res.value.bytes = cache[k].value /\ wk'[w].res.value.exp = cache[k].exp
                /\ wk'[w].ops = <<Op("Get", k)>>
     /\ \A k \in Keys :
          (cache'[k] # cache[k] /\ cache'[k].present) =>
             /\ \E w \in DOMAIN wk : /\ wk[w].pc = "fetch" /\ wk'[w].pc = "send"
                                     /\ KeyOf(wk[w].item) = k /\ wk'[w].res.ok
             /\ cache'[k].exp = now + cfg.Expiration]_vars

\* The first call fetched and wrote an entry at time 1 with TTL 0, the second call
\* read it as a hit at time 1, and the third call, at time 2, finds the entry still
\* expiring at 1 and takes it as expired.
C38_Witness ==
  /\ cfg.Expiration = 0 /\ Len(delivered) = 2 /\ now = 2
  /\ urls[1] = urls[2] /\ urls[2] = urls[3]
  /\ delivered[1].ok /\ ~delivered[1].cached /\ delivered[1].item = 1
  /\ delivered[2].cached /\ delivered[2].item = 2
  /\ delivered[2].value.bytes = ContentType(1).bytes /\ delivered[2].value.exp = 1
  /\ wk[1].item = 3 /\ wk[1].pc = "cleanup" /\ wk[1].verdict = "expired"
  /\ wk[1].seen.entry.exp = 1 /\ wk[1].seen.entry.value = ContentType(1).bytes
  /\ cache[urls[1]].exp = 1

\* C39: a failed fetch writes nothing to the cache. A pass of the retry loop that
\* fails, and the end of the loop without a success, leave the whole store and the
\* list of the job's cache operations as they are; the job's cache check and cleanup
\* touch no other key; and when the job ends in failure it has issued no Set, and its
\* key holds what the cache check left: nothing if the check found nothing or removed
\* an expired entry, the undecodable record if the lookup failed.
C39_FailedFetchWritesNothing ==
  [][\A w \in DOMAIN wk :
       LET k == KeyOf(wk[w].item)
           fails == wk[w].pc = "fetch" /\ ~(wk'[w].pc = "send" /\ wk'[w].res.ok)
           ends == wk[w].pc = "fetch" /\ wk'[w].pc = "send" /\ ~wk'[w].res.ok
       IN /\ fails => cache' = cache /\ wk'[w].ops = wk[w].ops
          /\ wk[w].pc \in {"cache", "cleanup"} => \A j \in Keys \ {k} : cache'[j] = cache[j]
          /\ ends => /\ \A n \in 1..Len(wk'[w].ops) : wk'[w].ops[n].op # "Set"
                     /\ wk[w].verdict \in {"notfound", "expired"} => ~cache'[k].present
                     /\ wk[w].verdict = "error" => cache'[k].present /\ cache'[k].bad
                     /\ wk[w].verdict # "hit"]_vars

\* Two calls have failed after all their attempts: the first for a key whose record
\* could not be decoded and is still there, the second for a key whose expired entry
\* its cache check removed.
C39_Witness ==
  /\ Len(delivered) = 2 /\ cfg.Retry = MaxRetry /\ ~cfg.Force
  /\ ~delivered[1].ok /\ ~delivered[2].ok
  /\ urls[1] # urls[2]
  /\ cache[urls[1]] = Malformed
  /\ ~cache[urls[2]].present
  /\ wk[1].verdict = "expired" /\ wk[1].seen.entry.exp = Stale.exp /\ wk[1].l.calls = MaxRetry
  /\ wk[1].ops = <<Op("Get", urls[2]), Op("Delete", urls[2])>>

\* --------------------------------- further properties of the cache manager
\* C40: the cache manager never hands out a closed store: the instance a GetCache
\* returns without error is open, that is, Close has not been called on it, whatever
\* GetCache, Close and Reset calls came before and however their closing of the
\* store ended.
C40_NeverHandsOutClosed ==
  \A p \in Procs :
    (mp[p].pc = "idle" /\ mp[p].op = "GetCache" /\ mp[p].err = "nil") =>
       mp[p].ret # NoInst /\ mp[p].was = "open"

====
